---- MODULE Spec2Model ----
(***************************************************************************)
(* Model of the incremental sync engine of Laforge (src-tauri):            *)
(*   - the parallel transfer wave of parallel_sync.rs together with the    *)
(*     project-keyed cancel flags of main.rs            (specification     *)
(*     Spec),                                                              *)
(*   - the resume uploads of transfer_resume.rs         (SpecResume),      *)
(*   - the per-file ledger of a TransferSession         (SpecSession).     *)
(* The three parts share one variable tuple; each specification moves its  *)
(* own variables and leaves the others at their initial value.             *)
(***************************************************************************)
EXTENDS Integers, Sequences, FiniteSets, TLC

(***************************************************************************)
(* Bounds of the model.                                                    *)
(***************************************************************************)
\* largest number of files with status added/modified handed to a wave
MaxFiles == 5
\* largest max_connections value requested by the caller (0 included)
MaxConnections == 2
\* number of threads rayon picks on its own when asked for 0 threads
NumCpus == 2

(***************************************************************************)
(* Program constants.                                                      *)
(***************************************************************************)
MAX_PARALLEL_CONNECTIONS == 8
\* ParallelProgressTracker::new(.., 20, 70) in both parallel syncs
base_progress == 20
progress_range == 70
\* should_stop: failed_files >= 3
STOP_AFTER_FAILURES == 3

\* chunk_size of the resume transfer loop
CHUNK_SIZE == 65536

\* largest local / remote file, in bytes
MaxLen == 2
\* largest total_size of a ledger entry
MaxSize == 2
\* largest number of sessions ever created in the store
MaxSessions == 3
\* the clock advances by TickHours up to MaxNow hours
TickHours == 12
MaxNow == 36

\* longest history a history file holds at the start
MaxStart == 2
\* largest max_snapshots of a history file
MaxCap == 2
\* largest number of add_snapshot calls
MaxAdds == 2

\* number of different file hashes
MaxHash == 2

\* largest number of chunks of a file
MaxChunks == 5

\* delta_sync.rs: pub const CHUNK_SIZE: usize = 65536
DELTA_CHUNK_SIZE == 65536

\* variant: the threshold is twice as high
MIN_DELTA_FILE_SIZE_doubled == 2 * 256 * 1024

\* delta_sync.rs: pub const MIN_DELTA_FILE_SIZE: u64 = 256 * 1024
MIN_DELTA_FILE_SIZE == 256 * 1024

\* largest number of files a sync uploads
MaxSyncFiles == 3

\* largest number of session commands called
MaxCommands == 4

\* largest number of chunks of an uploaded file
MaxUploadChunks == 3

\* ProjectVersionHistory::new: max_snapshots: 10
DEFAULT_MAX_SNAPSHOTS == 10

\* complete_transfer_session: store.cleanup_old_sessions(24)
SESSION_MAX_AGE_HOURS == 24

Bytes == {0, 1}
Paths == {"a.txt", "b.txt"}
Projects == {"A", "B"}
NoFile == 0

Min(a, b) == IF a <= b THEN a ELSE b

VARIABLES
    \* ---- main.rs: CANCEL_FLAGS ----
    cancel_flags,       \* [Projects -> BOOLEAN]; an absent key reads false
    \* ---- parallel_sync.rs: one call of parallel_sftp_sync / parallel_ftp_sync ----
    project_id,         \* the project the wave runs for
    max_connections,    \* the requested number of connections
    total_files,        \* files_to_upload.len()
    file_state,         \* [1..total_files -> "queued"|"checking"|"uploading"|
                        \*    "finishing"|"complete"|"error"|"skipped"]
    worker_pc,          \* [pool thread -> "idle"|"should_stop"|"upload"|
                        \*    "store_progress"|"push_error"]
    worker_file,        \* [pool thread -> file it works on, NoFile when idle]
    worker_completed,   \* [pool thread -> value returned by its fetch_add + 1]
    completed_files,    \* tracker.completed_files
    failed_files,       \* tracker.failed_files
    current_progress,   \* tracker.current_progress
    errors,             \* tracker.errors, the files whose message was pushed
    started,            \* files for which file_start was emitted
    uploaded,           \* files whose bytes are completely on the remote
    wave_result,        \* [kind |-> "running"|"Ok"|"Err", msg, entries]
    \* ---- transfer_resume.rs: one call of resume_sftp_upload / resume_ftp_upload ----
    protocol,           \* "sftp" | "ftp"
    local_file,         \* bytes of the local file
    offset,             \* the offset argument
    remote_before,      \* [exists, bytes]: the remote file when the call starts
    remote_file,        \* [exists, bytes]: the remote file now
    resume_pc,          \* "start" | "transfer" | "done"
    local_pos,          \* read position of local_file after the seek
    remote_pos,         \* write position of the remote handle
    transferred,        \* the local `transferred` counter
    sent,               \* bytes written to the remote by this call
    resume_result,      \* [kind |-> "none"|"Ok"|"Err", value]
    \* ---- transfer_resume.rs: TransferSession.files ----
    files,              \* [Paths -> [present, total_size, transferred_bytes, status]]
    \* ---- transfer_resume.rs: TransferSessionStore (transfer_sessions.json) ----
    sessions,           \* [session id -> [present, project_id, started_at, completed]]
    next_session,       \* number of sessions created so far (ids are fresh uuids)
    now,                \* chrono::Utc::now(), in hours
    \* ---- version_history.rs: ProjectVersionHistory and the backup tree ----
    snapshots,          \* history.snapshots: sequence of [id, backed]
    max_snapshots,      \* history.max_snapshots
    disk,               \* the backup files on disk: set of [id, path]
    next_snapshot,      \* number of snapshot ids handed out so far
    add_calls,              \* number of add_snapshot calls made
    hist_pc,            \* position inside add_snapshot
    removed,            \* add_snapshot's local `removed` (its id, 0 when none)
    pending,            \* files of `removed` the for loop has not visited yet
    old_snapshots,      \* history.snapshots when add_snapshot was called
    old_disk,           \* the backup files on disk when add_snapshot was called
    \* ---- version_history.rs: compare_snapshots ----
    old_files,          \* old.files as path -> hash (NoHash: no such file)
    new_files,          \* new.files as path -> hash
    cmp_pc,             \* position inside compare_snapshots
    visited,            \* keys the running for loop has visited
    added, modified, deleted, unchanged,    \* the four lists of SnapshotDiff
    \* ---- version_history.rs: restore_snapshot ----
    snapshot_files,     \* snapshot.files as path -> state of its backup
    files_to_restore,   \* [given, files]: Some(files) or None
    rst_pc,             \* position inside restore_snapshot
    rst_visited,        \* files the for loop has visited
    restored,           \* the list `restored`
    target_files,       \* files copied into target_path
    failed_at,          \* what made the call return Err ("" when nothing)
    \* ---- version_history.rs: create_snapshot ----
    local_tree,         \* the files under local_path: path -> [exists, size, hash]
    backup_dir,         \* TRUE when backup_dir is Some
    crt_pc,             \* position inside create_snapshot
    walked,             \* entries the walk has yielded
    file_versions,      \* the list `files`: [path, hash, size, backup_path]
    total_size,         \* the running total_size
    files_count,        \* SyncSnapshot.files_count of the snapshot returned
    copy_failed,        \* files whose fs::copy to the backup failed
    crt_error,          \* what made the call return Err ("" when nothing)
    \* ---- delta_sync.rs: compute_file_delta ----
    live_file,          \* the file at file_path: its chunks(CHUNK_SIZE), [size, data]
    cached_signature,   \* Option<&FileSignature> (some = FALSE: None)
    delta_pc,           \* "call" before compute_file_delta ran, "done" after
    delta,              \* the FileDelta returned (status "Err": an Err)
    \* ---- delta_sync.rs: analyze_delta_sync ----
    disk_tree,          \* the files under local_path: path -> [exists, contents]
    signatures,         \* cache.signatures: path -> FileSignature (some = FALSE: no key)
    an_pc,              \* position inside analyze_delta_sync
    an_walked,          \* entries the walk has yielded
    an_checked,         \* cache keys the second loop has visited
    deltas,             \* the list `deltas`: [path, delta]
    unreadable,         \* files for which compute_file_delta returned Err
    \* ---- delta_sync.rs: update_cache_after_sync ----
    upd_tree,           \* the files under local_path: path -> [exists, contents]
    persisted_cache,    \* the cache document on disk: path -> FileSignature
    cache,              \* the SignatureCache in memory
    synced_files,       \* the paths listed in synced_files
    upd_pc,             \* position inside update_cache_after_sync
    upd_done,           \* listed paths the for loop has visited
    \* ---- main.rs: sftp_sync (project A, parallel SFTP transfer) ----
    sync_pc,            \* position inside sftp_sync
    sync_cancel,        \* CANCEL_FLAGS[project_id]
    cancel_requested,   \* sftp_cancel_sync was called during this sync
    stopped_by_cancel,  \* an is_cancelled test of this sync has returned true
    dry_run,            \* the argument dry_run
    opt_create_snapshot,    \* sync_options.create_snapshot
    sync_total,         \* files_to_upload.len()
    names_cancel,       \* file -> its path or its error text contains "cancelled"
    next_file,          \* next item the for_each closure is called with
    sync_errors,        \* tracker.errors, as the files that failed
    events,             \* the sync-progress events emitted, in order
    sync_result,        \* what the transfer returned: [kind, names_cancel]
    snapshot_state,     \* how the snapshot step of this sync went
    \* ---- main.rs: the session commands, one caller per project ----
    sessions_json,      \* transfer_sessions.json: [project -> its session]
    com_pc,             \* [project -> "idle" | "loaded"]: its command's position
    com_name,           \* [project -> the command it runs]
    com_arg,            \* [project -> the argument `transferred`]
    com_store,          \* [project -> the `store` its command loaded]
    com_effect,         \* [project -> its session as its last command saved it]
    com_calls,          \* number of commands called so far
    \* ---- parallel_sync.rs: the for_each closure, called with one file ----
    wk_pc,              \* "check" | "open" | "write" | "done"
    wk_cancelled,       \* is_cancelled(project_id) when the closure tests it
    wk_failed,          \* tracker.failed_files when the closure tests it
    wk_big,             \* file_size > chunk_size
    wk_chunks,          \* number of chunks of the file's contents
    wk_sent,            \* chunks written to the remote file
    wk_events,          \* the events emitted for the file, in order
    \* ---- main.rs: one call of sync_sftp_with_progress / sync_ftp_with_progress ----
    seq_pc,             \* "connect" | "for" | "done"
    seq_total,          \* files_to_upload.len()
    seq_next,           \* the file the for loop is at
    seq_cancel,         \* CANCEL_FLAGS[project_id]
    seq_completed,      \* the local `completed`
    seq_errors,         \* the local `errors`, as the files that failed
    seq_result,         \* [kind, entries]: the result and the failures its text lists
    \* ---- main.rs: the snapshot step of create_version_snapshot / sftp_sync ----
    persisted_snapshots, \* the snapshots of the history document on disk
    step_command,       \* the command the step belongs to
    step_pc,            \* "create" | "load" | "add" | "done"
    step_backed,        \* the files of the new snapshot that have a backup_path
    step_result         \* "none" | "Ok" | "Err" | "continues"

par_vars == <<cancel_flags, project_id, max_connections, total_files, file_state,
              worker_pc, worker_file, worker_completed, completed_files,
              failed_files, current_progress, errors, started, uploaded,
              wave_result>>

res_vars == <<protocol, local_file, offset, remote_before, remote_file, resume_pc,
              local_pos, remote_pos, transferred, sent, resume_result>>

ses_vars == <<files>>

store_vars == <<sessions, next_session, now>>

ver_vars == <<snapshots, max_snapshots, disk, next_snapshot, add_calls, hist_pc,
              removed, pending, old_snapshots, old_disk>>

cmp_vars == <<old_files, new_files, cmp_pc, visited, added, modified, deleted,
              unchanged>>

rst_vars == <<snapshot_files, files_to_restore, rst_pc, rst_visited, restored,
              target_files, failed_at>>

crt_vars == <<local_tree, backup_dir, crt_pc, walked, file_versions, total_size,
              files_count, copy_failed, crt_error>>

delta_vars == <<live_file, cached_signature, delta_pc, delta>>

an_vars == <<disk_tree, signatures, an_pc, an_walked, an_checked, deltas, unreadable>>

upd_vars == <<upd_tree, persisted_cache, cache, synced_files, upd_pc, upd_done>>

sync_vars == <<sync_pc, sync_cancel, cancel_requested, stopped_by_cancel, dry_run,
               opt_create_snapshot, sync_total, names_cancel, next_file, sync_errors,
               events, sync_result, snapshot_state>>

com_vars == <<sessions_json, com_pc, com_name, com_arg, com_store, com_effect,
              com_calls>>

wk_vars == <<wk_pc, wk_cancelled, wk_failed, wk_big, wk_chunks, wk_sent, wk_events>>

seq_vars == <<seq_pc, seq_total, seq_next, seq_cancel, seq_completed, seq_errors,
              seq_result>>

\* the parts that follow the session commands
stp_vars == <<persisted_snapshots, step_command, step_pc, step_backed, step_result>>

last_vars == <<wk_vars, seq_vars, stp_vars>>

\* the parts added last
more_vars == <<an_vars, upd_vars, sync_vars, com_vars, last_vars>>

\* the parts added after the first three
ext_vars == <<store_vars, ver_vars, cmp_vars, rst_vars, crt_vars, delta_vars, more_vars>>

\* the parts before analyze_delta_sync
old_parts == <<par_vars, res_vars, ses_vars, store_vars, ver_vars, cmp_vars, rst_vars,
               crt_vars, delta_vars>>

\* everything but analyze_delta_sync
not_an == <<old_parts, upd_vars, sync_vars, com_vars, last_vars>>

\* everything but update_cache_after_sync
not_upd == <<old_parts, an_vars, sync_vars, com_vars, last_vars>>

\* everything but sftp_sync
not_sync == <<old_parts, an_vars, upd_vars, com_vars, last_vars>>

\* everything but the session commands
not_com == <<old_parts, an_vars, upd_vars, sync_vars, last_vars>>

\* the parts before the closure of the parallel wave
mid_parts == <<old_parts, an_vars, upd_vars, sync_vars, com_vars>>

\* everything but the closure of the parallel wave
not_wk == <<mid_parts, seq_vars, stp_vars>>

\* everything but the sequential sync
not_seq == <<mid_parts, wk_vars, stp_vars>>

\* everything but the version history and the snapshot step
not_stp == <<par_vars, res_vars, ses_vars, store_vars, cmp_vars, rst_vars, crt_vars,
             delta_vars, an_vars, upd_vars, sync_vars, com_vars, wk_vars, seq_vars>>

\* everything but the session store
not_store == <<par_vars, res_vars, ses_vars, ver_vars, cmp_vars, rst_vars, crt_vars,
                delta_vars, more_vars>>

\* everything but the version history
not_ver == <<par_vars, res_vars, ses_vars, store_vars, cmp_vars, rst_vars, crt_vars,
                delta_vars, more_vars>>

\* everything but compare_snapshots
not_cmp == <<par_vars, res_vars, ses_vars, store_vars, ver_vars, rst_vars, crt_vars,
                delta_vars, more_vars>>

\* everything but restore_snapshot
not_rst == <<par_vars, res_vars, ses_vars, store_vars, ver_vars, cmp_vars, crt_vars,
                delta_vars, more_vars>>

\* everything but create_snapshot
not_crt == <<par_vars, res_vars, ses_vars, store_vars, ver_vars, cmp_vars, rst_vars,
             delta_vars, more_vars>>

\* everything but compute_file_delta
not_delta == <<par_vars, res_vars, ses_vars, store_vars, ver_vars, cmp_vars, rst_vars,
               crt_vars, more_vars>>

vars == <<par_vars, res_vars, ses_vars, ext_vars>>

Files == 1..total_files

\* actual_connections = max_connections.min(total_files).min(MAX_PARALLEL_CONNECTIONS)
actual_connections ==
    Min(Min(max_connections, total_files), MAX_PARALLEL_CONNECTIONS)

\* rayon::ThreadPoolBuilder::num_threads(n): n = 0 lets rayon choose the
\* number of threads itself (the number of logical CPUs)
num_threads == IF actual_connections = 0 THEN NumCpus ELSE actual_connections

Threads == 1..num_threads

\* variant: the lookup misses the key and falls back to false
is_cancelled_key_missed(p) == FALSE

\* is_cancelled(project_id)
is_cancelled(p) == cancel_flags[p]

\* variant: strict comparison, stops one failure late
should_stop_strict == failed_files > STOP_AFTER_FAILURES

\* ParallelProgressTracker::should_stop
should_stop == failed_files >= STOP_AFTER_FAILURES

\* variant: the share of one file is rounded down before it is multiplied
calculate_progress_divide_first(completed) ==
    IF total_files = 0
        THEN base_progress + progress_range
        ELSE base_progress + (completed * (progress_range \div total_files))

\* ParallelProgressTracker::calculate_progress
calculate_progress(completed) ==
    IF total_files = 0
        THEN base_progress + progress_range
        ELSE base_progress + ((completed * progress_range) \div total_files)

\* number of file uploads in progress (a connection is open for the file)
UploadsInProgress == Cardinality({t \in Threads : worker_pc[t] = "upload"})

ParInit ==
    /\ cancel_flags = [p \in Projects |-> FALSE]
    /\ project_id \in Projects
    /\ max_connections \in 0..MaxConnections
    /\ total_files \in 1..MaxFiles
    /\ file_state = [f \in 1..total_files |-> "queued"]
    /\ worker_pc = [t \in Threads |-> "idle"]
    /\ worker_file = [t \in Threads |-> NoFile]
    /\ worker_completed = [t \in Threads |-> 0]
    /\ completed_files = 0
    /\ failed_files = 0
    /\ current_progress = base_progress
    /\ errors = <<>>
    /\ started = {}
    /\ uploaded = {}
    /\ wave_result = [kind |-> "running", msg |-> "", entries |-> <<>>]

\* no wave: the state of the parallel part under the other specifications
ParIdle ==
    /\ cancel_flags = [p \in Projects |-> FALSE]
    /\ project_id = "A"
    /\ max_connections = 1
    /\ total_files = 1
    /\ file_state = [f \in 1..1 |-> "skipped"]
    /\ worker_pc = [t \in 1..1 |-> "idle"]
    /\ worker_file = [t \in 1..1 |-> NoFile]
    /\ worker_completed = [t \in 1..1 |-> 0]
    /\ completed_files = 0
    /\ failed_files = 0
    /\ current_progress = base_progress
    /\ errors = <<>>
    /\ started = {}
    /\ uploaded = {}
    /\ wave_result = [kind |-> "Ok", msg |-> "", entries |-> <<>>]

\* sftp_cancel_sync(project_id): set_cancelled(project_id, true)
sftp_cancel_sync(p) ==
    /\ wave_result.kind = "running"
    /\ cancel_flags' = [cancel_flags EXCEPT ![p] = TRUE]
    /\ UNCHANGED <<project_id, max_connections, total_files, file_state,
                   worker_pc, worker_file, worker_completed, completed_files,
                   failed_files, current_progress, errors, started, uploaded,
                   wave_result, res_vars, ses_vars, ext_vars>>

\* set_cancelled(q, false) at the start and at the end of an sftp_sync of
\* another project q; the sync of project_id itself clears its flag only
\* before and after its wave (main.rs 652 and 747).
sftp_sync_clears_flag(q) ==
    /\ wave_result.kind = "running"
    /\ q # project_id
    /\ cancel_flags' = [cancel_flags EXCEPT ![q] = FALSE]
    /\ UNCHANGED <<project_id, max_connections, total_files, file_state,
                   worker_pc, worker_file, worker_completed, completed_files,
                   failed_files, current_progress, errors, started, uploaded,
                   wave_result, res_vars, ses_vars, ext_vars>>

\* A pool thread takes the next item of par_iter and evaluates the first
\* operand of `is_cancelled(project_id) || tracker.should_stop()`.
\* parallel_ftp_sync runs the same closure (its created_dirs set only
\* deduplicates mkdir calls), so one wave stands for both protocols.  The
\* items carry no data of their own here, so they are handed out in index
\* order; which thread gets which item stays open.
PollCancel(t, f) ==
    /\ wave_result.kind = "running"
    /\ worker_pc[t] = "idle"
    /\ file_state[f] = "queued"
    /\ \A g \in 1..(f - 1) : file_state[g] # "queued"
    /\ IF is_cancelled(project_id)
         THEN /\ file_state' = [file_state EXCEPT ![f] = "skipped"]
              /\ UNCHANGED <<worker_pc, worker_file>>
         ELSE /\ file_state' = [file_state EXCEPT ![f] = "checking"]
              /\ worker_pc' = [worker_pc EXCEPT ![t] = "should_stop"]
              /\ worker_file' = [worker_file EXCEPT ![t] = f]
    /\ UNCHANGED <<cancel_flags, project_id, max_connections, total_files,
                   worker_completed, completed_files, failed_files,
                   current_progress, errors, started, uploaded, wave_result,
                   res_vars, ses_vars, ext_vars>>

\* Second operand of the check; when it is false too, emit_file_start and the
\* thread opens its own connection for the file.
PollShouldStop(t) ==
    /\ worker_pc[t] = "should_stop"
    /\ IF should_stop
         THEN /\ file_state' = [file_state EXCEPT ![worker_file[t]] = "skipped"]
              /\ worker_pc' = [worker_pc EXCEPT ![t] = "idle"]
              /\ worker_file' = [worker_file EXCEPT ![t] = NoFile]
              /\ UNCHANGED started
         ELSE /\ file_state' = [file_state EXCEPT ![worker_file[t]] = "uploading"]
              /\ worker_pc' = [worker_pc EXCEPT ![t] = "upload"]
              /\ started' = started \cup {worker_file[t]}
              /\ UNCHANGED worker_file
    /\ UNCHANGED <<cancel_flags, project_id, max_connections, total_files,
                   worker_completed, completed_files, failed_files,
                   current_progress, errors, uploaded, wave_result,
                   res_vars, ses_vars, ext_vars>>

\* upload_single_*_file returned Ok; emit_file_complete starts with
\* completed_files.fetch_add(1) + 1
UploadOk(t) ==
    /\ worker_pc[t] = "upload"
    /\ uploaded' = uploaded \cup {worker_file[t]}
    /\ completed_files' = completed_files + 1
    /\ worker_completed' = [worker_completed EXCEPT ![t] = completed_files + 1]
    /\ worker_pc' = [worker_pc EXCEPT ![t] = "store_progress"]
    /\ file_state' = [file_state EXCEPT ![worker_file[t]] = "finishing"]
    /\ UNCHANGED <<cancel_flags, project_id, max_connections, total_files,
                   worker_file, failed_files, current_progress, errors,
                   started, wave_result, res_vars, ses_vars, ext_vars>>

\* emit_file_complete: current_progress.store(calculate_progress(completed))
\* and the file_complete event
StoreProgress(t) ==
    /\ worker_pc[t] = "store_progress"
    /\ current_progress' = calculate_progress(worker_completed[t])
    /\ file_state' = [file_state EXCEPT ![worker_file[t]] = "complete"]
    /\ worker_pc' = [worker_pc EXCEPT ![t] = "idle"]
    /\ worker_file' = [worker_file EXCEPT ![t] = NoFile]
    /\ UNCHANGED <<cancel_flags, project_id, max_connections, total_files,
                   worker_completed, completed_files, failed_files, errors,
                   started, uploaded, wave_result, res_vars, ses_vars, ext_vars>>

\* upload_single_*_file returned Err; emit_file_error starts with
\* failed_files.fetch_add(1)
UploadErr(t) ==
    /\ worker_pc[t] = "upload"
    /\ failed_files' = failed_files + 1
    /\ worker_pc' = [worker_pc EXCEPT ![t] = "push_error"]
    /\ file_state' = [file_state EXCEPT ![worker_file[t]] = "finishing"]
    /\ UNCHANGED <<cancel_flags, project_id, max_connections, total_files,
                   worker_file, worker_completed, completed_files,
                   current_progress, errors, started, uploaded, wave_result,
                   res_vars, ses_vars, ext_vars>>

\* emit_file_error: errors.push("{file}: {error}") and the file_error event
PushError(t) ==
    /\ worker_pc[t] = "push_error"
    /\ errors' = Append(errors, worker_file[t])
    /\ file_state' = [file_state EXCEPT ![worker_file[t]] = "error"]
    /\ worker_pc' = [worker_pc EXCEPT ![t] = "idle"]
    /\ worker_file' = [worker_file EXCEPT ![t] = NoFile]
    /\ UNCHANGED <<cancel_flags, project_id, max_connections, total_files,
                   worker_completed, completed_files, failed_files,
                   current_progress, started, uploaded, wave_result,
                   res_vars, ses_vars, ext_vars>>

\* variant: the cancel flag is looked at before the recorded errors
WaveReturn_cancel_first ==
    /\ wave_result.kind = "running"
    /\ \A t \in Threads : worker_pc[t] = "idle"
    /\ \A f \in Files : file_state[f] # "queued"
    /\ wave_result' =
         IF cancel_flags[project_id]
           THEN [kind |-> "Err", msg |-> "Synchronisation annulee", entries |-> <<>>]
         ELSE IF errors # <<>>
           THEN [kind |-> "Err", msg |-> "fichier(s) en erreur", entries |-> errors]
         ELSE [kind |-> "Ok", msg |-> "", entries |-> <<>>]
    /\ UNCHANGED <<cancel_flags, project_id, max_connections, total_files,
                   file_state, worker_pc, worker_file, worker_completed,
                   completed_files, failed_files, current_progress, errors,
                   started, uploaded, res_vars, ses_vars, ext_vars>>

\* variant: the cancel flag is not looked at after the wave
WaveReturn_errors_only ==
    /\ wave_result.kind = "running"
    /\ \A t \in Threads : worker_pc[t] = "idle"
    /\ \A f \in Files : file_state[f] # "queued"
    /\ wave_result' =
         IF errors # <<>>
           THEN [kind |-> "Err", msg |-> "fichier(s) en erreur", entries |-> errors]
         ELSE [kind |-> "Ok", msg |-> "", entries |-> <<>>]
    /\ UNCHANGED <<cancel_flags, project_id, max_connections, total_files,
                   file_state, worker_pc, worker_file, worker_completed,
                   completed_files, failed_files, current_progress, errors,
                   started, uploaded, res_vars, ses_vars, ext_vars>>

\* pool.install returns when every item has been handled; the result is
\* computed from tracker.get_errors() and is_cancelled(project_id)
WaveReturn ==
    /\ wave_result.kind = "running"
    /\ \A t \in Threads : worker_pc[t] = "idle"
    /\ \A f \in Files : file_state[f] # "queued"
    /\ wave_result' =
         IF errors # <<>>
           THEN [kind |-> "Err", msg |-> "fichier(s) en erreur", entries |-> errors]
         ELSE IF is_cancelled(project_id)
           THEN [kind |-> "Err", msg |-> "Synchronisation annulee", entries |-> <<>>]
         ELSE [kind |-> "Ok", msg |-> "", entries |-> <<>>]
    /\ UNCHANGED <<cancel_flags, project_id, max_connections, total_files,
                   file_state, worker_pc, worker_file, worker_completed,
                   completed_files, failed_files, current_progress, errors,
                   started, uploaded, res_vars, ses_vars, ext_vars>>

ParNext ==
    \/ \E p \in Projects : sftp_cancel_sync(p)
    \/ \E q \in Projects : sftp_sync_clears_flag(q)
    \/ \E t \in Threads : \E f \in Files : PollCancel(t, f)
    \/ \E t \in Threads : PollShouldStop(t)
    \/ \E t \in Threads : UploadOk(t)
    \/ \E t \in Threads : StoreProgress(t)
    \/ \E t \in Threads : UploadErr(t)
    \/ \E t \in Threads : PushError(t)
    \/ WaveReturn

(***************************************************************************)
(* transfer_resume.rs: resume_sftp_upload and resume_ftp_upload.           *)
(* A file is a sequence of bytes; the remote file is [exists, bytes].      *)
(***************************************************************************)
SeqsUpTo(n) == UNION {[1..k -> Bytes] : k \in 0..n}

\* the bytes of s after the first n ones (what a read after seek(n) returns)
Drop(s, n) == IF n >= Len(s) THEN <<>> ELSE SubSeq(s, n + 1, Len(s))

\* the first n bytes of s
Take(s, n) == IF n >= Len(s) THEN s ELSE SubSeq(s, 1, n)

\* write_all(data) through a handle positioned at pos (pos <= Len(r))
WriteAt(r, pos, data) ==
    [i \in 1..(IF pos + Len(data) > Len(r) THEN pos + Len(data) ELSE Len(r)) |->
        IF i > pos /\ i <= pos + Len(data) THEN data[i - pos] ELSE r[i]]

NoRemote == [exists |-> FALSE, bytes |-> <<>>]
EmptyRemote == [exists |-> TRUE, bytes |-> <<>>]

ResumeIdle ==
    /\ protocol = "none"
    /\ local_file = <<>>
    /\ offset = 0
    /\ remote_before = NoRemote
    /\ remote_file = NoRemote
    /\ resume_pc = "done"
    /\ local_pos = 0
    /\ remote_pos = 0
    /\ transferred = 0
    /\ sent = <<>>
    /\ resume_result = [kind |-> "none", value |-> 0]

ResumeInit ==
    /\ protocol \in {"sftp", "ftp"}
    /\ local_file \in SeqsUpTo(MaxLen)
    /\ offset \in 0..(MaxLen + 1)
    /\ remote_before \in {NoRemote} \cup
                         {[exists |-> TRUE, bytes |-> b] : b \in SeqsUpTo(MaxLen)}
    /\ remote_file = remote_before
    /\ resume_pc = "start"
    /\ local_pos = 0
    /\ remote_pos = 0
    /\ transferred = 0
    /\ sent = <<>>
    /\ resume_result = [kind |-> "none", value |-> 0]

\* resume_sftp_upload up to the transfer loop: seek the local file to offset,
\* then open or create the remote file.  stat_size: f.stat() gave Some(size);
\* create_ok: sftp.create succeeded.
ResumeSftpOpenRemote(stat_size, create_ok) ==
    /\ protocol = "sftp"
    /\ resume_pc = "start"
    /\ local_pos' = offset
    /\ transferred' = offset
    /\ IF offset > 0 /\ remote_file.exists
         THEN IF stat_size
                THEN IF Len(remote_file.bytes) # offset
                       THEN \* size mismatch: sftp.create truncates the file
                            IF create_ok
                              THEN /\ remote_file' = EmptyRemote
                                   /\ remote_pos' = 0
                                   /\ resume_pc' = "transfer"
                                   /\ UNCHANGED resume_result
                              ELSE /\ resume_result' = [kind |-> "Err", value |-> 0]
                                   /\ resume_pc' = "done"
                                   /\ UNCHANGED <<remote_file, remote_pos>>
                       ELSE \* f.seek(SeekFrom::End(0))
                            /\ remote_pos' = Len(remote_file.bytes)
                            /\ resume_pc' = "transfer"
                            /\ UNCHANGED <<remote_file, resume_result>>
                ELSE \* stat failed or carried no size: f is used as opened
                     /\ remote_pos' = 0
                     /\ resume_pc' = "transfer"
                     /\ UNCHANGED <<remote_file, resume_result>>
         ELSE \* open failed (no such file) or fresh upload: sftp.create
              IF create_ok
                THEN /\ remote_file' = EmptyRemote
                     /\ remote_pos' = 0
                     /\ resume_pc' = "transfer"
                     /\ UNCHANGED resume_result
                ELSE /\ resume_result' = [kind |-> "Err", value |-> 0]
                     /\ resume_pc' = "done"
                     /\ UNCHANGED <<remote_file, remote_pos>>
    /\ UNCHANGED <<protocol, local_file, offset, remote_before, sent,
                   par_vars, ses_vars, ext_vars>>

\* one iteration of the transfer loop that read at least one byte; the
\* write through the handle may succeed or fail (write_ok)
ResumeSftpWriteChunk(write_ok) ==
    /\ protocol = "sftp"
    /\ resume_pc = "transfer"
    /\ local_pos < Len(local_file)
    /\ LET bytes_read == Min(CHUNK_SIZE, Len(local_file) - local_pos)
           chunk == SubSeq(local_file, local_pos + 1, local_pos + bytes_read)
       IN IF write_ok
            THEN /\ remote_file' = [exists |-> TRUE,
                                    bytes |-> WriteAt(remote_file.bytes, remote_pos, chunk)]
                 /\ remote_pos' = remote_pos + bytes_read
                 /\ local_pos' = local_pos + bytes_read
                 /\ transferred' = transferred + bytes_read
                 /\ sent' = sent \o chunk
                 /\ UNCHANGED <<resume_pc, resume_result>>
            ELSE /\ resume_result' = [kind |-> "Err", value |-> 0]
                 /\ resume_pc' = "done"
                 /\ UNCHANGED <<remote_file, remote_pos, local_pos, transferred, sent>>
    /\ UNCHANGED <<protocol, local_file, offset, remote_before, par_vars, ses_vars, ext_vars>>

\* the read returned 0 bytes: break and Ok(transferred)
ResumeSftpReturn ==
    /\ protocol = "sftp"
    /\ resume_pc = "transfer"
    /\ local_pos >= Len(local_file)
    /\ resume_result' = [kind |-> "Ok", value |-> transferred]
    /\ resume_pc' = "done"
    /\ UNCHANGED <<protocol, local_file, offset, remote_before, remote_file,
                   local_pos, remote_pos, transferred, sent, par_vars, ses_vars, ext_vars>>

\* resume_ftp_upload: seek, read_to_end, then APPE when offset > 0 and STOR
\* otherwise; Ok(local file size).  put_ok: the FTP command succeeded.
ResumeFtpUpload(put_ok) ==
    /\ protocol = "ftp"
    /\ resume_pc = "start"
    /\ local_pos' = Len(local_file)
    /\ LET buffer == Drop(local_file, offset)
       IN IF put_ok
            THEN /\ remote_file' =
                      IF offset > 0
                        THEN [exists |-> TRUE, bytes |-> remote_file.bytes \o buffer]
                        ELSE [exists |-> TRUE, bytes |-> buffer]
                 /\ sent' = buffer
                 /\ resume_result' = [kind |-> "Ok", value |-> Len(local_file)]
            ELSE /\ resume_result' = [kind |-> "Err", value |-> 0]
                 /\ UNCHANGED <<remote_file, sent>>
    /\ resume_pc' = "done"
    /\ UNCHANGED <<protocol, local_file, offset, remote_before, remote_pos,
                   transferred, par_vars, ses_vars, ext_vars>>

\* get_remote_ftp_size: the size of the remote file, 0 when it is missing
get_remote_ftp_size(r) == IF r.exists THEN Len(r.bytes) ELSE 0

ResumeNext ==
    \/ \E stat_size \in BOOLEAN : \E create_ok \in BOOLEAN :
           ResumeSftpOpenRemote(stat_size, create_ok)
    \/ \E write_ok \in BOOLEAN : ResumeSftpWriteChunk(write_ok)
    \/ ResumeSftpReturn
    \/ \E put_ok \in BOOLEAN : ResumeFtpUpload(put_ok)

(***************************************************************************)
(* transfer_resume.rs: the file ledger of one TransferSession.             *)
(***************************************************************************)
NoEntry == [present |-> FALSE, total_size |-> 0, transferred_bytes |-> 0,
            status |-> "Pending"]

SessionIdle == files = [p \in Paths |-> NoEntry]

SessionInit == files = [p \in Paths |-> NoEntry]

\* TransferSession::add_file
add_file(path, size) ==
    /\ files' = [files EXCEPT ![path] =
                    [present |-> TRUE, total_size |-> size,
                     transferred_bytes |-> 0, status |-> "Pending"]]
    /\ UNCHANGED <<par_vars, res_vars, ext_vars>>

\* TransferSession::update_progress
update_progress(path, transferred_arg) ==
    /\ IF files[path].present
         THEN files' = [files EXCEPT ![path].transferred_bytes = transferred_arg,
                                     ![path].status = "InProgress"]
         ELSE UNCHANGED files
    /\ UNCHANGED <<par_vars, res_vars, ext_vars>>

\* variant: the status is set but transferred_bytes is left as it was
mark_completed_status_only(path) ==
    /\ IF files[path].present
         THEN files' = [files EXCEPT ![path].status = "Completed"]
         ELSE UNCHANGED files
    /\ UNCHANGED <<par_vars, res_vars, ext_vars>>

\* TransferSession::mark_completed
mark_completed(path) ==
    /\ IF files[path].present
         THEN files' = [files EXCEPT ![path].transferred_bytes = files[path].total_size,
                                     ![path].status = "Completed"]
         ELSE UNCHANGED files
    /\ UNCHANGED <<par_vars, res_vars, ext_vars>>

\* TransferSession::mark_failed
mark_failed(path) ==
    /\ IF files[path].present
         THEN files' = [files EXCEPT ![path].status = "Failed"]
         ELSE UNCHANGED files
    /\ UNCHANGED <<par_vars, res_vars, ext_vars>>

\* variant: only the InProgress entries pass the status filter
get_resumable_files_in_progress_only ==
    {p \in Paths :
        /\ files[p].present
        /\ files[p].status = "InProgress"
        /\ files[p].transferred_bytes > 0
        /\ files[p].transferred_bytes < files[p].total_size}

\* TransferSession::get_resumable_files, as the set of the paths returned
get_resumable_files ==
    {p \in Paths :
        /\ files[p].present
        /\ \/ files[p].status = "InProgress"
           \/ files[p].status = "Paused"
           \/ files[p].status = "Failed"
        /\ files[p].transferred_bytes > 0
        /\ files[p].transferred_bytes < files[p].total_size}

SessionNext ==
    \/ \E path \in Paths : \E size \in 0..MaxSize : add_file(path, size)
    \/ \E path \in Paths : \E t \in 0..(MaxSize + 1) : update_progress(path, t)
    \/ \E path \in Paths : mark_completed(path)
    \/ \E path \in Paths : mark_failed(path)

(***************************************************************************)
(* transfer_resume.rs: TransferSessionStore.  The document on disk is the  *)
(* store itself: every command loads it, changes it and saves it.          *)
(***************************************************************************)
SessionIds == 1..MaxSessions

NoSession == [present |-> FALSE, project_id |-> "", started_at |-> 0,
              completed |-> FALSE]

StoreInit ==
    /\ sessions = [id \in SessionIds |-> NoSession]
    /\ next_session = 0
    /\ now = 0

StoreIdle ==
    /\ sessions = [id \in SessionIds |-> NoSession]
    /\ next_session = 0
    /\ now = 0

\* the sessions of st with session_id marked completed (complete_session)
Completed(st, session_id) ==
    [id \in SessionIds |->
        IF id = session_id /\ st[id].present
          THEN [st[id] EXCEPT !.completed = TRUE]
          ELSE st[id]]

\* variant: the retain test keeps a session only when it is recent AND open
Retained_recent_and_open(st, max_age_hours) ==
    [id \in SessionIds |->
        IF st[id].present
           /\ (st[id].started_at > now - max_age_hours /\ ~st[id].completed)
          THEN st[id]
          ELSE NoSession]

\* the retain of cleanup_old_sessions: cutoff = now - max_age_hours, a session
\* stays when started_at > cutoff or it is not completed
Retained(st, max_age_hours) ==
    [id \in SessionIds |->
        IF st[id].present
           /\ (st[id].started_at > now - max_age_hours \/ ~st[id].completed)
          THEN st[id]
          ELSE NoSession]

\* time passes
Tick ==
    /\ now + TickHours <= MaxNow
    /\ now' = now + TickHours
    /\ UNCHANGED <<sessions, next_session, not_store>>

\* TransferSessionStore::create_session (TransferSession::new: a fresh id,
\* started_at = now, completed = false)
create_session(p) ==
    /\ next_session < MaxSessions
    /\ next_session' = next_session + 1
    /\ sessions' = [sessions EXCEPT ![next_session + 1] =
                       [present |-> TRUE, project_id |-> p, started_at |-> now,
                        completed |-> FALSE]]
    /\ UNCHANGED <<now, not_store>>

\* TransferSessionStore::complete_session
complete_session(session_id) ==
    /\ sessions' = Completed(sessions, session_id)
    /\ UNCHANGED <<next_session, now, not_store>>

\* TransferSessionStore::cleanup_old_sessions
cleanup_old_sessions(max_age_hours) ==
    /\ sessions' = Retained(sessions, max_age_hours)
    /\ UNCHANGED <<next_session, now, not_store>>

\* the command complete_transfer_session: complete_session, then
\* cleanup_old_sessions(24), then save
complete_transfer_session(session_id) ==
    /\ sessions' = Retained(Completed(sessions, session_id), SESSION_MAX_AGE_HOURS)
    /\ UNCHANGED <<next_session, now, not_store>>

MaxAges == {0, TickHours, SESSION_MAX_AGE_HOURS}

StoreNext ==
    \/ Tick
    \/ \E p \in Projects : create_session(p)
    \/ \E id \in SessionIds : complete_session(id)
    \/ \E max_age_hours \in MaxAges : cleanup_old_sessions(max_age_hours)
    \/ \E id \in SessionIds : complete_transfer_session(id)

(***************************************************************************)
(* version_history.rs: ProjectVersionHistory::add_snapshot.  A snapshot is *)
(* its id and the set of its files that have a backup_path; the backup of  *)
(* file path of snapshot id is backup_dir/id/path, here [id, path].        *)
(***************************************************************************)
Snapshot(id, backed) == [id |-> id, backed |-> backed]

BackupsOf(s) == {[id |-> s.id, path |-> path] : path \in s.backed}

\* the histories load_history can return: any list, the ids all different
StartHistories ==
    UNION {[1..n -> {s \in [id : 1..MaxStart, backed : SUBSET Paths] : TRUE}]
              : n \in 0..MaxStart}

VersionInit ==
    /\ snapshots \in {h \in StartHistories : \A i \in 1..Len(h) : h[i].id = i}
    /\ max_snapshots \in 0..MaxCap
    /\ disk = UNION {BackupsOf(snapshots[i]) : i \in 1..Len(snapshots)}
    /\ next_snapshot = Len(snapshots)
    /\ add_calls = 0
    /\ hist_pc = "idle"
    /\ removed = 0
    /\ pending = {}
    /\ old_snapshots = snapshots
    /\ old_disk = disk

VersionIdle ==
    /\ snapshots = <<>>
    /\ max_snapshots = DEFAULT_MAX_SNAPSHOTS
    /\ disk = {}
    /\ next_snapshot = 0
    /\ add_calls = 0
    /\ hist_pc = "idle"
    /\ removed = 0
    /\ pending = {}
    /\ old_snapshots = <<>>
    /\ old_disk = {}

\* variant: the loop stops one snapshot too early
exceeds_limit_by_two(snaps) == Len(snaps) > max_snapshots + 1

\* the while condition: self.snapshots.len() > self.max_snapshots
exceeds_limit(snaps) == Len(snaps) > max_snapshots

\* add_snapshot is called with a snapshot create_snapshot has just made (its
\* backups are on disk): self.snapshots.push(snapshot)
add_snapshot_push(backed) ==
    /\ hist_pc = "idle"
    /\ add_calls < MaxAdds
    /\ add_calls' = add_calls + 1
    /\ next_snapshot' = next_snapshot + 1
    /\ old_snapshots' = snapshots
    /\ old_disk' = disk \cup BackupsOf(Snapshot(next_snapshot + 1, backed))
    /\ disk' = disk \cup BackupsOf(Snapshot(next_snapshot + 1, backed))
    /\ snapshots' = Append(snapshots, Snapshot(next_snapshot + 1, backed))
    /\ hist_pc' = "while"
    /\ UNCHANGED <<max_snapshots, removed, pending, not_ver>>

\* let removed = self.snapshots.remove(0)
add_snapshot_remove_first ==
    /\ hist_pc = "while"
    /\ exceeds_limit(snapshots)
    /\ removed' = Head(snapshots).id
    /\ pending' = Head(snapshots).backed
    /\ snapshots' = Tail(snapshots)
    /\ hist_pc' = "for"
    /\ UNCHANGED <<max_snapshots, disk, next_snapshot, add_calls, old_snapshots,
                   old_disk, not_ver>>

\* let _ = fs::remove_file(backup_path): the file is removed, or the removal
\* fails and the failure is dropped
add_snapshot_remove_file(path, remove_ok) ==
    /\ hist_pc = "for"
    /\ path \in pending
    /\ pending' = pending \ {path}
    /\ disk' = IF remove_ok THEN disk \ {[id |-> removed, path |-> path]} ELSE disk
    /\ UNCHANGED <<snapshots, max_snapshots, next_snapshot, add_calls, hist_pc,
                   removed, old_snapshots, old_disk, not_ver>>

\* the for loop is over: back to the while condition
add_snapshot_next_round ==
    /\ hist_pc = "for"
    /\ pending = {}
    /\ hist_pc' = "while"
    /\ removed' = 0
    /\ UNCHANGED <<snapshots, max_snapshots, disk, next_snapshot, add_calls,
                   pending, old_snapshots, old_disk, not_ver>>

\* the while condition is false: add_snapshot returns
add_snapshot_return ==
    /\ hist_pc = "while"
    /\ ~exceeds_limit(snapshots)
    /\ hist_pc' = "idle"
    /\ UNCHANGED <<snapshots, max_snapshots, disk, next_snapshot, add_calls,
                   removed, pending, old_snapshots, old_disk, not_ver>>

VersionNext ==
    \/ \E backed \in SUBSET Paths : add_snapshot_push(backed)
    \/ add_snapshot_remove_first
    \/ \E path \in Paths, remove_ok \in BOOLEAN : add_snapshot_remove_file(path, remove_ok)
    \/ add_snapshot_next_round
    \/ add_snapshot_return

(***************************************************************************)
(* version_history.rs: compare_snapshots.  The two HashMaps are functions  *)
(* from path to hash; a for loop visits the keys in any order.             *)
(***************************************************************************)
CmpPaths == {"a", "b", "c"}

\* a path that is not a key of the map
NoHash == 0

Hashes == 1..MaxHash

Range(seq) == {seq[i] : i \in 1..Len(seq)}

CompareInit ==
    /\ old_files \in [CmpPaths -> Hashes \cup {NoHash}]
    /\ new_files \in [CmpPaths -> Hashes \cup {NoHash}]
    /\ cmp_pc = "new"
    /\ visited = {}
    /\ added = <<>>
    /\ modified = <<>>
    /\ deleted = <<>>
    /\ unchanged = <<>>

CompareIdle ==
    /\ old_files = [path \in CmpPaths |-> NoHash]
    /\ new_files = [path \in CmpPaths |-> NoHash]
    /\ cmp_pc = "done"
    /\ visited = {}
    /\ added = <<>>
    /\ modified = <<>>
    /\ deleted = <<>>
    /\ unchanged = <<>>

\* variant: a file of both snapshots counts as modified whatever its hashes
new_file_class_always_modified(path) ==
    IF old_files[path] = NoHash THEN "added" ELSE "modified"

\* the match on old_files.get(path) in the first loop
new_file_class(path) ==
    IF old_files[path] = NoHash
      THEN "added"
      ELSE IF old_files[path] # new_files[path] THEN "modified" ELSE "unchanged"

\* one round of `for (path, new_file) in &new_files`
compare_new_file(path) ==
    /\ cmp_pc = "new"
    /\ new_files[path] # NoHash
    /\ path \notin visited
    /\ visited' = visited \cup {path}
    /\ added' = IF new_file_class(path) = "added" THEN Append(added, path) ELSE added
    /\ modified' = IF new_file_class(path) = "modified"
                     THEN Append(modified, path) ELSE modified
    /\ unchanged' = IF new_file_class(path) = "unchanged"
                      THEN Append(unchanged, path) ELSE unchanged
    /\ UNCHANGED <<old_files, new_files, cmp_pc, deleted, not_cmp>>

\* the first loop is over
compare_new_done ==
    /\ cmp_pc = "new"
    /\ \A path \in CmpPaths : new_files[path] # NoHash => path \in visited
    /\ cmp_pc' = "old"
    /\ visited' = {}
    /\ UNCHANGED <<old_files, new_files, added, modified, deleted, unchanged, not_cmp>>

\* one round of `for path in old_files.keys()`
compare_old_file(path) ==
    /\ cmp_pc = "old"
    /\ old_files[path] # NoHash
    /\ path \notin visited
    /\ visited' = visited \cup {path}
    /\ deleted' = IF new_files[path] = NoHash THEN Append(deleted, path) ELSE deleted
    /\ UNCHANGED <<old_files, new_files, cmp_pc, added, modified, unchanged, not_cmp>>

\* the second loop is over: SnapshotDiff is returned
compare_return ==
    /\ cmp_pc = "old"
    /\ \A path \in CmpPaths : old_files[path] # NoHash => path \in visited
    /\ cmp_pc' = "done"
    /\ visited' = {}
    /\ UNCHANGED <<old_files, new_files, added, modified, deleted, unchanged, not_cmp>>

CompareNext ==
    \/ \E path \in CmpPaths : compare_new_file(path)
    \/ compare_new_done
    \/ \E path \in CmpPaths : compare_old_file(path)
    \/ compare_return

(***************************************************************************)
(* version_history.rs: restore_snapshot.  A file of the snapshot has no    *)
(* backup_path ("no_backup"), a backup_path whose file is not on disk      *)
(* ("missing") or one whose file is there ("present"); "absent" is a path  *)
(* the snapshot does not have.                                             *)
(***************************************************************************)
BackupStates == {"absent", "no_backup", "missing", "present"}

NoSubset == [given |-> FALSE, files |-> {}]

RestoreInit ==
    /\ snapshot_files \in [CmpPaths -> BackupStates]
    /\ files_to_restore \in
          {NoSubset} \cup {[given |-> TRUE, files |-> fs] : fs \in SUBSET CmpPaths}
    /\ rst_pc = "start"
    /\ rst_visited = {}
    /\ restored = <<>>
    /\ target_files = {}
    /\ failed_at = ""

RestoreIdle ==
    /\ snapshot_files = [path \in CmpPaths |-> "absent"]
    /\ files_to_restore = NoSubset
    /\ rst_pc = "ok"
    /\ rst_visited = {}
    /\ restored = <<>>
    /\ target_files = {}
    /\ failed_at = ""

\* the filter by files_to_restore
selected(path) == files_to_restore.given => path \in files_to_restore.files

\* variant: the test backup_file.exists() is left out
has_usable_backup_unchecked(path) == snapshot_files[path] \in {"missing", "present"}

\* backup_path is Some(p) and the file p exists
has_usable_backup(path) == snapshot_files[path] = "present"

\* target_path exists, or create_dir_all makes it or fails
restore_target_dir(dir_ok) ==
    /\ rst_pc = "start"
    /\ rst_pc' = IF dir_ok THEN "for" ELSE "err"
    /\ failed_at' = IF dir_ok THEN "" ELSE "target_path"
    /\ UNCHANGED <<snapshot_files, files_to_restore, rst_visited, restored,
                   target_files, not_rst>>

\* one round of `for file_version in &snapshot.files`: skipped by one of the
\* three `continue`, or copied (create_dir_all and fs::copy, either can fail)
restore_file(path, copy_ok) ==
    /\ rst_pc = "for"
    /\ snapshot_files[path] # "absent"
    /\ path \notin rst_visited
    /\ rst_visited' = rst_visited \cup {path}
    /\ IF ~selected(path) \/ ~has_usable_backup(path)
         THEN UNCHANGED <<rst_pc, restored, target_files, failed_at>>
         ELSE IF copy_ok
                THEN /\ restored' = Append(restored, path)
                     /\ target_files' = target_files \cup {path}
                     /\ UNCHANGED <<rst_pc, failed_at>>
                ELSE /\ rst_pc' = "err"
                     /\ failed_at' = path
                     /\ UNCHANGED <<restored, target_files>>
    /\ UNCHANGED <<snapshot_files, files_to_restore, not_rst>>

\* Ok(restored)
restore_return ==
    /\ rst_pc = "for"
    /\ \A path \in CmpPaths : snapshot_files[path] # "absent" => path \in rst_visited
    /\ rst_pc' = "ok"
    /\ UNCHANGED <<snapshot_files, files_to_restore, rst_visited, restored,
                   target_files, failed_at, not_rst>>

RestoreNext ==
    \/ \E dir_ok \in BOOLEAN : restore_target_dir(dir_ok)
    \/ \E path \in CmpPaths, copy_ok \in BOOLEAN : restore_file(path, copy_ok)
    \/ restore_return

(***************************************************************************)
(* version_history.rs: create_snapshot.  The walk yields the files under   *)
(* local_path one by one; metadata, hashing and the backup copy can fail.  *)
(***************************************************************************)
WalkPaths == {"a", "b", ".hidden"}

\* name.starts_with('.')
is_hidden(path) == path = ".hidden"

NoLocalFile == [exists |-> FALSE, size |-> 0, hash |-> NoHash]

LocalFiles ==
    {NoLocalFile} \cup [exists : {TRUE}, size : 0..MaxSize, hash : Hashes]

CreateInit ==
    /\ local_tree \in [WalkPaths -> LocalFiles]
    /\ backup_dir \in BOOLEAN
    /\ crt_pc = "start"
    /\ walked = {}
    /\ file_versions = <<>>
    /\ total_size = 0
    /\ files_count = 0
    /\ copy_failed = {}
    /\ crt_error = ""

CreateIdle ==
    /\ local_tree = [path \in WalkPaths |-> NoLocalFile]
    /\ backup_dir = FALSE
    /\ crt_pc = "ok"
    /\ walked = {}
    /\ file_versions = <<>>
    /\ total_size = 0
    /\ files_count = 0
    /\ copy_failed = {}
    /\ crt_error = ""

\* what can happen to one file: fs::metadata fails, compute_file_hash fails,
\* fs::copy to the backup fails, or nothing fails
FileOutcomes == {"metadata_err", "hash_err", "copy_err", "ok"}

\* variant: the path of the backup is recorded whether or not the copy worked
has_backup_path_unchecked(outcome) == backup_dir

\* backup_path is Some: a backup_dir is given and fs::copy(..).is_ok()
has_backup_path(outcome) == backup_dir /\ outcome = "ok"

FileVersion(path, outcome) ==
    [path |-> path, hash |-> local_tree[path].hash, size |-> local_tree[path].size,
     backup_path |-> has_backup_path(outcome)]

\* if !base_path.exists() return Err
create_snapshot_start(path_exists) ==
    /\ crt_pc = "start"
    /\ crt_pc' = IF path_exists THEN "walk" ELSE "err"
    /\ crt_error' = IF path_exists THEN "" ELSE "local_path"
    /\ UNCHANGED <<local_tree, backup_dir, walked, file_versions, total_size,
                   files_count, copy_failed, not_crt>>

\* one entry of the walk
create_snapshot_file(path, outcome) ==
    /\ crt_pc = "walk"
    /\ local_tree[path].exists
    /\ path \notin walked
    /\ walked' = walked \cup {path}
    /\ IF is_hidden(path)
         THEN UNCHANGED <<crt_pc, file_versions, total_size, copy_failed, crt_error>>
         ELSE IF outcome \in {"metadata_err", "hash_err"}
                THEN /\ crt_pc' = "err"
                     /\ crt_error' = outcome
                     /\ UNCHANGED <<file_versions, total_size, copy_failed>>
                ELSE /\ total_size' = total_size + local_tree[path].size
                     /\ file_versions' = Append(file_versions, FileVersion(path, outcome))
                     /\ copy_failed' = IF backup_dir /\ outcome = "copy_err"
                                         THEN copy_failed \cup {path} ELSE copy_failed
                     /\ UNCHANGED <<crt_pc, crt_error>>
    /\ UNCHANGED <<local_tree, backup_dir, files_count, not_crt>>

\* Ok(SyncSnapshot { files_count: files.len(), total_size, files, .. })
create_snapshot_return ==
    /\ crt_pc = "walk"
    /\ \A path \in WalkPaths : local_tree[path].exists => path \in walked
    /\ crt_pc' = "ok"
    /\ files_count' = Len(file_versions)
    /\ UNCHANGED <<local_tree, backup_dir, walked, file_versions, total_size,
                   copy_failed, crt_error, not_crt>>

CreateNext ==
    \/ \E path_exists \in BOOLEAN : create_snapshot_start(path_exists)
    \/ \E path \in WalkPaths, outcome \in FileOutcomes : create_snapshot_file(path, outcome)
    \/ create_snapshot_return

(***************************************************************************)
(* delta_sync.rs: generate_file_signature and compute_file_delta.  A file  *)
(* is the sequence contents.chunks(CHUNK_SIZE) yields: every chunk but the *)
(* last has CHUNK_SIZE bytes; `data` tells chunks of one size apart.       *)
(***************************************************************************)
Chunk(size, data) == [size |-> size, data |-> data]

\* sizes of a last chunk: one byte, or a full chunk
LastSizes == {1, DELTA_CHUNK_SIZE}

FilesOfChunks(n) ==
    {f \in [1..n -> [size : LastSizes, data : Bytes]] :
        \A i \in 1..(n - 1) : f[i].size = DELTA_CHUNK_SIZE}

LiveFiles == UNION {FilesOfChunks(n) : n \in 0..MaxChunks}

RECURSIVE ByteLen(_)
\* contents.len(), which is metadata.len()
ByteLen(contents) ==
    IF contents = <<>> THEN 0 ELSE Head(contents).size + ByteLen(Tail(contents))

\* SHA-256 of data, taken as injective: the hash of data is data itself
compute_hash(data) == data

NoSignature ==
    [some |-> FALSE, total_size |-> 0, full_hash |-> <<>>, chunk_hashes |-> <<>>]

generate_file_signature(contents) ==
    [some |-> TRUE,
     total_size |-> ByteLen(contents),
     full_hash |-> compute_hash(contents),
     chunk_hashes |-> [i \in 1..Len(contents) |->
                         [index |-> i - 1,
                          size |-> contents[i].size,
                          hash |-> compute_hash(<<contents[i]>>)]]]

\* variant: a chunk the cached signature does not have counts as unchanged
chunk_changed_known_only(contents, cached, i) ==
    IF i <= Len(cached.chunk_hashes)
      THEN cached.chunk_hashes[i].hash # compute_hash(<<contents[i]>>)
      ELSE FALSE

\* cached.chunk_hashes.get(index).map(|c| c.hash != chunk_hash).unwrap_or(true),
\* for the chunk at position i = index + 1
chunk_changed(contents, cached, i) ==
    IF i <= Len(cached.chunk_hashes)
      THEN cached.chunk_hashes[i].hash # compute_hash(<<contents[i]>>)
      ELSE TRUE

RECURSIVE ChangedFrom(_, _, _)
\* the loop over contents.chunks(CHUNK_SIZE).enumerate() from position i on:
\* the indices pushed to changed_chunks and the bytes added to transfer_size
ChangedFrom(contents, cached, i) ==
    IF i > Len(contents)
      THEN [changed_chunks |-> <<>>, transfer_size |-> 0]
      ELSE LET rest == ChangedFrom(contents, cached, i + 1)
           IN  IF chunk_changed(contents, cached, i)
                 THEN [changed_chunks |-> <<i - 1>> \o rest.changed_chunks,
                       transfer_size |-> contents[i].size + rest.transfer_size]
                 ELSE rest

\* ((total_size - transfer_size) as f32 / total_size as f32) * 100.0, rounded
\* down to a whole percent
savings(total, transfer) ==
    IF total > 0 THEN ((total - transfer) * 100) \div total ELSE 0

FileDelta(status, total, transfer, changed, percent) ==
    [status |-> status, total_size |-> total, transfer_size |-> transfer,
     changed_chunks |-> changed, savings_percent |-> percent]

NoDelta == FileDelta("", 0, 0, <<>>, 0)

\* variant: the full hash is compared before the size is tested
ComputedDelta_hash_first(contents, cached) ==
    LET total == ByteLen(contents)
        loop == ChangedFrom(contents, cached, 1)
    IN  IF ~cached.some
          THEN FileDelta("New", total, total, <<>>, 0)
          ELSE IF compute_hash(contents) = cached.full_hash
                 THEN FileDelta("Unchanged", total, 0, <<>>, 100)
                 ELSE IF total < MIN_DELTA_FILE_SIZE
                        THEN FileDelta("SmallFile", total, total, <<>>, 0)
                        ELSE FileDelta("Modified", total, loop.transfer_size,
                                       loop.changed_chunks,
                                       savings(total, loop.transfer_size))

\* the value compute_file_delta returns when no read fails
ComputedDelta(contents, cached) ==
    LET total == ByteLen(contents)
        loop == ChangedFrom(contents, cached, 1)
    IN  IF ~cached.some
          THEN FileDelta("New", total, total, <<>>, 0)
          ELSE IF total < MIN_DELTA_FILE_SIZE
                 THEN FileDelta("SmallFile", total, total, <<>>, 0)
                 ELSE IF compute_hash(contents) = cached.full_hash
                        THEN FileDelta("Unchanged", total, 0, <<>>, 100)
                        ELSE FileDelta("Modified", total, loop.transfer_size,
                                       loop.changed_chunks,
                                       savings(total, loop.transfer_size))

DeltaInit ==
    /\ live_file \in LiveFiles
    /\ cached_signature \in
          {NoSignature} \cup {generate_file_signature(f) : f \in LiveFiles}
    /\ delta_pc = "call"
    /\ delta = NoDelta

DeltaIdle ==
    /\ live_file = <<>>
    /\ cached_signature = NoSignature
    /\ delta_pc = "done"
    /\ delta = NoDelta

\* compute_file_delta: fs::metadata, File::open or read_to_end fails (Err), or
\* the delta is returned
compute_file_delta(read_ok) ==
    /\ delta_pc = "call"
    /\ delta_pc' = "done"
    /\ delta' = IF read_ok THEN ComputedDelta(live_file, cached_signature)
                           ELSE FileDelta("Err", 0, 0, <<>>, 0)
    /\ UNCHANGED <<live_file, cached_signature, not_delta>>

DeltaNext == \E read_ok \in BOOLEAN : compute_file_delta(read_ok)

(***************************************************************************)
(* delta_sync.rs: analyze_delta_sync.  Every path has no file, an empty    *)
(* file or one of two files of MIN_DELTA_FILE_SIZE bytes; the cache holds  *)
(* no signature for it or the signature of one of these files.             *)
(***************************************************************************)
AnPaths == {"a.txt", "b.txt", ".env"}

\* name.starts_with('.')
hidden(path) == path = ".env"

BigFile(data) ==
    [i \in 1..(MIN_DELTA_FILE_SIZE \div DELTA_CHUNK_SIZE) |-> Chunk(DELTA_CHUNK_SIZE, data)]

AnContents(path) == IF hidden(path) THEN {<<>>} ELSE {<<>>} \cup {BigFile(d) : d \in Bytes}

NoTreeFile == [exists |-> FALSE, contents |-> <<>>]

TreeFiles(path) == {NoTreeFile} \cup [exists : {TRUE}, contents : AnContents(path)]

CachedSignatures(path) ==
    {NoSignature} \cup {generate_file_signature(f) : f \in AnContents(path)}

DeletedDelta == FileDelta("Deleted", 0, 0, <<>>, 100)

AnalyzeInit ==
    /\ disk_tree \in {t \in [AnPaths -> UNION {TreeFiles(p) : p \in AnPaths}] :
                         \A p \in AnPaths : t[p] \in TreeFiles(p)}
    /\ signatures \in {c \in [AnPaths -> UNION {CachedSignatures(p) : p \in AnPaths}] :
                          \A p \in AnPaths : c[p] \in CachedSignatures(p)}
    /\ an_pc = "start"
    /\ an_walked = {}
    /\ an_checked = {}
    /\ deltas = <<>>
    /\ unreadable = {}

AnalyzeIdle ==
    /\ disk_tree = [p \in AnPaths |-> NoTreeFile]
    /\ signatures = [p \in AnPaths |-> NoSignature]
    /\ an_pc = "done"
    /\ an_walked = {}
    /\ an_checked = {}
    /\ deltas = <<>>
    /\ unreadable = {}

\* if !base_path.exists() return Err: a directory with files in it exists
analyze_start(path_exists) ==
    /\ an_pc = "start"
    /\ ~path_exists => \A p \in AnPaths : ~disk_tree[p].exists
    /\ an_pc' = IF path_exists THEN "walk" ELSE "err"
    /\ UNCHANGED <<disk_tree, signatures, an_walked, an_checked, deltas, unreadable,
                   not_an>>

\* variant: a failure of compute_file_delta ends the pass with the error
analyze_file_error_aborts(path, read_ok) ==
    /\ an_pc = "walk"
    /\ disk_tree[path].exists
    /\ path \notin an_walked
    /\ an_walked' = an_walked \cup {path}
    /\ IF hidden(path)
         THEN UNCHANGED <<deltas, unreadable, an_pc>>
         ELSE IF read_ok
                THEN /\ deltas' = Append(deltas,
                           [path |-> path,
                            delta |-> ComputedDelta(disk_tree[path].contents,
                                                    signatures[path])])
                     /\ UNCHANGED <<unreadable, an_pc>>
                ELSE /\ unreadable' = unreadable \cup {path}
                     /\ an_pc' = "err"
                     /\ UNCHANGED deltas
    /\ UNCHANGED <<disk_tree, signatures, an_checked, not_an>>

\* one entry of the walk: a hidden file is skipped, the delta of another file
\* is pushed, or compute_file_delta fails and the file is only logged
analyze_file(path, read_ok) ==
    /\ an_pc = "walk"
    /\ disk_tree[path].exists
    /\ path \notin an_walked
    /\ an_walked' = an_walked \cup {path}
    /\ IF hidden(path)
         THEN UNCHANGED <<deltas, unreadable>>
         ELSE IF read_ok
                THEN /\ deltas' = Append(deltas,
                           [path |-> path,
                            delta |-> ComputedDelta(disk_tree[path].contents,
                                                    signatures[path])])
                     /\ UNCHANGED unreadable
                ELSE /\ unreadable' = unreadable \cup {path}
                     /\ UNCHANGED deltas
    /\ UNCHANGED <<disk_tree, signatures, an_pc, an_checked, not_an>>

\* the walk is over
analyze_walk_done ==
    /\ an_pc = "walk"
    /\ \A p \in AnPaths : disk_tree[p].exists => p \in an_walked
    /\ an_pc' = "cached"
    /\ UNCHANGED <<disk_tree, signatures, an_walked, an_checked, deltas, unreadable,
                   not_an>>

\* variant: every key of the cache is taken as deleted
not_on_disk_unchecked(path) == TRUE

\* !full_path.exists()
not_on_disk(path) == ~disk_tree[path].exists

\* one round of `for cached_path in cache.signatures.keys()`
analyze_cached_path(path) ==
    /\ an_pc = "cached"
    /\ signatures[path].some
    /\ path \notin an_checked
    /\ an_checked' = an_checked \cup {path}
    /\ deltas' = IF not_on_disk(path)
                   THEN Append(deltas, [path |-> path, delta |-> DeletedDelta])
                   ELSE deltas
    /\ UNCHANGED <<disk_tree, signatures, an_pc, an_walked, unreadable, not_an>>

\* Ok(deltas)
analyze_return ==
    /\ an_pc = "cached"
    /\ \A p \in AnPaths : signatures[p].some => p \in an_checked
    /\ an_pc' = "done"
    /\ UNCHANGED <<disk_tree, signatures, an_walked, an_checked, deltas, unreadable,
                   not_an>>

AnalyzeNext ==
    \/ \E path_exists \in BOOLEAN : analyze_start(path_exists)
    \/ \E path \in AnPaths, read_ok \in BOOLEAN : analyze_file(path, read_ok)
    \/ analyze_walk_done
    \/ \E path \in AnPaths : analyze_cached_path(path)
    \/ analyze_return

(***************************************************************************)
(* delta_sync.rs: update_cache_after_sync.                                 *)
(***************************************************************************)
\* a file of one byte
OneByteFile == <<Chunk(1, 0)>>

\* the files of a path of the tree: those of the analysis and a one-byte file
UpdTreeFiles == TreeFiles("a.txt") \cup {[exists |-> TRUE, contents |-> OneByteFile]}

UpdCachedSignatures ==
    CachedSignatures("a.txt") \cup {generate_file_signature(OneByteFile)}

UpdateInit ==
    /\ upd_tree \in [Paths -> UpdTreeFiles]
    /\ persisted_cache \in [Paths -> UpdCachedSignatures]
    /\ cache = [p \in Paths |-> NoSignature]
    /\ synced_files \in SUBSET Paths
    /\ upd_pc = "load"
    /\ upd_done = {}

UpdateIdle ==
    /\ upd_tree = [p \in Paths |-> NoTreeFile]
    /\ persisted_cache = [p \in Paths |-> NoSignature]
    /\ cache = [p \in Paths |-> NoSignature]
    /\ synced_files = {}
    /\ upd_pc = "ok"
    /\ upd_done = {}

\* let mut cache = load_cache(app_data_dir, project_id)?
update_load(load_ok) ==
    /\ upd_pc = "load"
    /\ upd_pc' = IF load_ok THEN "for" ELSE "err"
    /\ cache' = IF load_ok THEN persisted_cache ELSE cache
    /\ UNCHANGED <<upd_tree, persisted_cache, synced_files, upd_done, not_upd>>

\* variant: the two arms are swapped, the entry of a file that exists is
\* removed
update_file_arms_swapped(path, signature_ok) ==
    /\ upd_pc = "for"
    /\ path \in synced_files \ upd_done
    /\ upd_done' = upd_done \cup {path}
    /\ cache' = IF ~upd_tree[path].exists
                  THEN IF signature_ok
                         THEN [cache EXCEPT ![path] =
                                  generate_file_signature(upd_tree[path].contents)]
                         ELSE cache
                  ELSE [cache EXCEPT ![path] = NoSignature]
    /\ UNCHANGED <<upd_tree, persisted_cache, synced_files, upd_pc, not_upd>>

\* one round of `for file_path in synced_files`: the file exists and its
\* signature is generated and stored, or generating it fails and is only
\* logged; or the file does not exist and its entry is removed
update_file(path, signature_ok) ==
    /\ upd_pc = "for"
    /\ path \in synced_files \ upd_done
    /\ upd_done' = upd_done \cup {path}
    /\ cache' = IF upd_tree[path].exists
                  THEN IF signature_ok
                         THEN [cache EXCEPT ![path] =
                                  generate_file_signature(upd_tree[path].contents)]
                         ELSE cache
                  ELSE [cache EXCEPT ![path] = NoSignature]
    /\ UNCHANGED <<upd_tree, persisted_cache, synced_files, upd_pc, not_upd>>

\* save_cache(app_data_dir, &cache)?; Ok(cache)
update_save(save_ok) ==
    /\ upd_pc = "for"
    /\ upd_done = synced_files
    /\ upd_pc' = IF save_ok THEN "ok" ELSE "err"
    /\ persisted_cache' = IF save_ok THEN cache ELSE persisted_cache
    /\ UNCHANGED <<upd_tree, cache, synced_files, upd_done, not_upd>>

UpdateNext ==
    \/ \E load_ok \in BOOLEAN : update_load(load_ok)
    \/ \E path \in Paths, signature_ok \in BOOLEAN : update_file(path, signature_ok)
    \/ \E save_ok \in BOOLEAN : update_save(save_ok)

(***************************************************************************)
(* main.rs: sftp_sync with the parallel SFTP transfer, as its events and   *)
(* its result.  The for_each closure of parallel_sftp_sync is called with  *)
(* the files one after the other.                                          *)
(***************************************************************************)
SyncFiles == 1..MaxSyncFiles

NoResult == [kind |-> "", names_cancel |-> FALSE]

SyncInit ==
    /\ sync_pc = "start"
    /\ sync_cancel \in BOOLEAN
    /\ cancel_requested = FALSE
    /\ stopped_by_cancel = FALSE
    /\ dry_run \in BOOLEAN
    /\ opt_create_snapshot \in BOOLEAN
    /\ sync_total \in 0..MaxSyncFiles
    /\ names_cancel \in {m \in [SyncFiles -> BOOLEAN] :
                            \A f \in SyncFiles : f > sync_total => ~m[f]}
    /\ next_file = 1
    /\ sync_errors = <<>>
    /\ events = <<>>
    /\ sync_result = NoResult
    /\ snapshot_state = "not_run"

SyncIdle ==
    /\ sync_pc = "done"
    /\ sync_cancel = FALSE
    /\ cancel_requested = FALSE
    /\ stopped_by_cancel = FALSE
    /\ dry_run = FALSE
    /\ opt_create_snapshot = FALSE
    /\ sync_total = 0
    /\ names_cancel = [f \in SyncFiles |-> FALSE]
    /\ next_file = 1
    /\ sync_errors = <<>>
    /\ events = <<>>
    /\ sync_result = NoResult
    /\ snapshot_state = "not_run"

\* the command sftp_cancel_sync for this project, while the sync runs
sync_user_cancel ==
    /\ sync_pc \notin {"start", "done"}
    /\ ~cancel_requested
    /\ sync_cancel' = TRUE
    /\ cancel_requested' = TRUE
    /\ UNCHANGED <<sync_pc, stopped_by_cancel, dry_run, opt_create_snapshot, sync_total,
                   names_cancel, next_file, sync_errors, events, sync_result,
                   snapshot_state, not_sync>>

\* set_cancelled(&project_id, false); emit_progress("connecting", ..)
sync_begin ==
    /\ sync_pc = "start"
    /\ sync_cancel' = FALSE
    /\ events' = Append(events, "connecting")
    /\ sync_pc' = "snapshot"
    /\ UNCHANGED <<cancel_requested, stopped_by_cancel, dry_run, opt_create_snapshot,
                   sync_total, names_cancel, next_file, sync_errors, sync_result,
                   snapshot_state, not_sync>>

\* variant: the snapshot is made on a dry run only
snapshot_wanted_on_dry_run == opt_create_snapshot /\ dry_run

\* if sync_options.create_snapshot && !dry_run
snapshot_wanted == opt_create_snapshot /\ ~dry_run

\* the snapshot step: create_snapshot, then load_history, add_snapshot and
\* save_history; a failure of any of them is dropped and the sync goes on
sync_snapshot(create_ok, load_ok, save_ok) ==
    /\ sync_pc = "snapshot"
    /\ sync_pc' = "analyze"
    /\ IF ~snapshot_wanted
         THEN snapshot_state' = "skipped" /\ UNCHANGED events
         ELSE IF ~create_ok
                THEN snapshot_state' = "create_failed" /\ UNCHANGED events
                ELSE /\ snapshot_state' = IF ~load_ok THEN "load_failed"
                                          ELSE IF ~save_ok THEN "save_failed"
                                          ELSE "saved"
                     /\ events' = Append(events, "snapshot")
    /\ UNCHANGED <<sync_cancel, cancel_requested, stopped_by_cancel, dry_run,
                   opt_create_snapshot, sync_total, names_cancel, next_file,
                   sync_errors, sync_result, not_sync>>

\* emit_progress("analyzing", ..); sftp_get_diff(..)?; the dry run ends here
sync_analyze(diff_ok) ==
    /\ sync_pc = "analyze"
    /\ IF ~diff_ok
         THEN /\ events' = Append(events, "analyzing")
              /\ sync_result' = [kind |-> "diff_failed", names_cancel |-> FALSE]
              /\ sync_pc' = "done"
         ELSE IF dry_run
                THEN /\ events' = events \o <<"analyzing", "complete">>
                     /\ sync_result' = [kind |-> "ok", names_cancel |-> FALSE]
                     /\ sync_pc' = "done"
                ELSE /\ events' = Append(events, "analyzing")
                     /\ sync_pc' = "check"
                     /\ UNCHANGED sync_result
    /\ UNCHANGED <<sync_cancel, cancel_requested, stopped_by_cancel, dry_run,
                   opt_create_snapshot, sync_total, names_cancel, next_file,
                   sync_errors, snapshot_state, not_sync>>

\* if is_cancelled(&project_id) { emit "cancelled"; return Err }
sync_check_cancel ==
    /\ sync_pc = "check"
    /\ IF sync_cancel
         THEN /\ events' = Append(events, "cancelled")
              /\ sync_result' = [kind |-> "cancelled", names_cancel |-> TRUE]
              /\ stopped_by_cancel' = TRUE
              /\ sync_pc' = "done"
         ELSE /\ sync_pc' = "transfer"
              /\ UNCHANGED <<events, sync_result, stopped_by_cancel>>
    /\ UNCHANGED <<sync_cancel, cancel_requested, dry_run, opt_create_snapshot,
                   sync_total, names_cancel, next_file, sync_errors, snapshot_state,
                   not_sync>>

\* the closure is called with the next file: it returns at once when
\* is_cancelled(project_id) || tracker.should_stop(), else emit_file_start
sync_file_start ==
    /\ sync_pc = "transfer"
    /\ next_file <= sync_total
    /\ IF sync_cancel \/ Len(sync_errors) >= STOP_AFTER_FAILURES
         THEN /\ next_file' = next_file + 1
              /\ stopped_by_cancel' = (stopped_by_cancel \/ sync_cancel)
              /\ UNCHANGED <<sync_pc, events>>
         ELSE /\ events' = Append(events, "file_start")
              /\ sync_pc' = "upload"
              /\ UNCHANGED <<next_file, stopped_by_cancel>>
    /\ UNCHANGED <<sync_cancel, cancel_requested, dry_run, opt_create_snapshot,
                   sync_total, names_cancel, sync_errors, sync_result, snapshot_state,
                   not_sync>>

\* upload_single_sftp_file returned: emit_file_complete or emit_file_error
sync_file_end(upload_ok) ==
    /\ sync_pc = "upload"
    /\ sync_pc' = "transfer"
    /\ next_file' = next_file + 1
    /\ events' = Append(events, IF upload_ok THEN "file_complete" ELSE "file_error")
    /\ sync_errors' = IF upload_ok THEN sync_errors ELSE Append(sync_errors, next_file)
    /\ UNCHANGED <<sync_cancel, cancel_requested, stopped_by_cancel, dry_run,
                   opt_create_snapshot, sync_total, names_cancel, sync_result,
                   snapshot_state, not_sync>>

\* the error message contains "annulée" or "cancelled" because a path or an
\* error text joined into it does
errors_name_cancel == \E i \in 1..Len(sync_errors) : names_cancel[sync_errors[i]]

\* parallel_sftp_sync returns: Ok when there was nothing to upload, the
\* errors when there are some, the cancellation when the flag is set, else Ok
sync_transfer_return ==
    /\ sync_pc = "transfer"
    /\ next_file > sync_total
    /\ sync_pc' = "result"
    /\ sync_result' =
          IF sync_total = 0 THEN [kind |-> "ok", names_cancel |-> FALSE]
          ELSE IF sync_errors # <<>>
                 THEN [kind |-> "files_failed", names_cancel |-> errors_name_cancel]
                 ELSE IF sync_cancel
                        THEN [kind |-> "cancelled", names_cancel |-> TRUE]
                        ELSE [kind |-> "ok", names_cancel |-> FALSE]
    /\ stopped_by_cancel' =
          (stopped_by_cancel \/ (sync_total > 0 /\ sync_errors = <<>> /\ sync_cancel))
    /\ UNCHANGED <<sync_cancel, cancel_requested, dry_run, opt_create_snapshot,
                   sync_total, names_cancel, next_file, sync_errors, events,
                   snapshot_state, not_sync>>

\* match result: "complete", or "cancelled" when the message contains
\* "annulée" or "cancelled", else "error"
final_event(result) ==
    IF result.kind = "ok" THEN "complete"
    ELSE IF result.names_cancel THEN "cancelled" ELSE "error"

\* set_cancelled(&project_id, false), then the last event
sync_finish ==
    /\ sync_pc = "result"
    /\ sync_cancel' = FALSE
    /\ events' = Append(events, final_event(sync_result))
    /\ sync_pc' = "done"
    /\ UNCHANGED <<cancel_requested, stopped_by_cancel, dry_run, opt_create_snapshot,
                   sync_total, names_cancel, next_file, sync_errors, sync_result,
                   snapshot_state, not_sync>>

SyncNext ==
    \/ sync_user_cancel
    \/ sync_begin
    \/ \E create_ok, load_ok, save_ok \in BOOLEAN : sync_snapshot(create_ok, load_ok, save_ok)
    \/ \E diff_ok \in BOOLEAN : sync_analyze(diff_ok)
    \/ sync_check_cancel
    \/ sync_file_start
    \/ \E upload_ok \in BOOLEAN : sync_file_end(upload_ok)
    \/ sync_transfer_return
    \/ sync_finish

(***************************************************************************)
(* main.rs: the session commands create_transfer_session,                  *)
(* update_transfer_progress, complete_transfer_file and                    *)
(* complete_transfer_session.  Each loads transfer_sessions.json, changes  *)
(* the store it loaded and saves it whole; nothing is held between the     *)
(* load and the save.  One caller per project, each project with at most   *)
(* one session, the session with one file of MaxSize bytes.                *)
(***************************************************************************)
SessionCommands == {"create_transfer_session", "update_transfer_progress",
                    "complete_transfer_file", "complete_transfer_session"}

AbsentSession == [present |-> FALSE, transferred_bytes |-> 0, status |-> "Pending",
              completed |-> FALSE, old |-> FALSE]

EmptyStore == [p \in Projects |-> AbsentSession]

\* store.create_session(&project_id) and session.add_file(..)
created(store, p) ==
    [store EXCEPT ![p] = [present |-> TRUE, transferred_bytes |-> 0,
                          status |-> "Pending", completed |-> FALSE, old |-> FALSE]]

\* session.update_progress(&file_path, transferred)
progressed(store, p, transferred_arg) ==
    [store EXCEPT ![p].transferred_bytes = transferred_arg, ![p].status = "InProgress"]

\* session.mark_completed(&file_path)
file_completed(store, p) ==
    [store EXCEPT ![p].transferred_bytes = MaxSize, ![p].status = "Completed"]

\* store.complete_session(&session_id); store.cleanup_old_sessions(24): the
\* sessions kept are those started less than 24 hours ago or not completed
session_completed(store, p) ==
    LET marked == IF store[p].present THEN [store EXCEPT ![p].completed = TRUE]
                  ELSE store
    IN  [q \in Projects |-> IF marked[q].present /\ marked[q].completed /\ marked[q].old
                              THEN AbsentSession ELSE marked[q]]

\* the store a command saves, from the store it loaded
command_store(name, store, p, transferred_arg) ==
    CASE name = "create_transfer_session" -> created(store, p)
      [] name = "update_transfer_progress" -> progressed(store, p, transferred_arg)
      [] name = "complete_transfer_file" -> file_completed(store, p)
      [] OTHER -> session_completed(store, p)

\* update_transfer_progress and complete_transfer_file save only when the
\* session is in the store they loaded
command_saves(name, store, p) ==
    name \in {"update_transfer_progress", "complete_transfer_file"} => store[p].present

CommandsInit ==
    /\ sessions_json = EmptyStore
    /\ com_pc = [p \in Projects |-> "idle"]
    /\ com_name = [p \in Projects |-> "create_transfer_session"]
    /\ com_arg = [p \in Projects |-> 0]
    /\ com_store = [p \in Projects |-> EmptyStore]
    /\ com_effect = EmptyStore
    /\ com_calls = 0

CommandsIdle ==
    /\ sessions_json = EmptyStore
    /\ com_pc = [p \in Projects |-> "idle"]
    /\ com_name = [p \in Projects |-> "create_transfer_session"]
    /\ com_arg = [p \in Projects |-> 0]
    /\ com_store = [p \in Projects |-> EmptyStore]
    /\ com_effect = EmptyStore
    /\ com_calls = MaxCommands

\* a command of project p starts: load_sessions(&app_dir)?
command_load(p, name, transferred_arg, load_ok) ==
    /\ com_pc[p] = "idle"
    /\ com_calls < MaxCommands
    /\ name = "create_transfer_session" => ~sessions_json[p].present
    /\ com_calls' = com_calls + 1
    /\ com_name' = [com_name EXCEPT ![p] = name]
    /\ com_arg' = [com_arg EXCEPT ![p] = transferred_arg]
    /\ IF load_ok
         THEN /\ com_store' = [com_store EXCEPT ![p] = sessions_json]
              /\ com_pc' = [com_pc EXCEPT ![p] = "loaded"]
         ELSE UNCHANGED <<com_store, com_pc>>
    /\ UNCHANGED <<sessions_json, com_effect, not_com>>

\* the command changes the store it loaded and returns after
\* save_sessions(&app_dir, &store)?
command_save(p, save_ok) ==
    /\ com_pc[p] = "loaded"
    /\ com_pc' = [com_pc EXCEPT ![p] = "idle"]
    /\ LET store == command_store(com_name[p], com_store[p], p, com_arg[p])
       IN  IF command_saves(com_name[p], com_store[p], p) /\ save_ok
             THEN /\ sessions_json' = store
                  /\ com_effect' = [com_effect EXCEPT ![p] = store[p]]
             ELSE UNCHANGED <<sessions_json, com_effect>>
    /\ UNCHANGED <<com_name, com_arg, com_store, com_calls, not_com>>

\* time passes: the session of p is now more than 24 hours old
session_ages(p) ==
    /\ sessions_json[p].present
    /\ ~sessions_json[p].old
    /\ sessions_json' = [sessions_json EXCEPT ![p].old = TRUE]
    /\ UNCHANGED <<com_pc, com_name, com_arg, com_store, com_effect, com_calls, not_com>>

CommandsNext ==
    \/ \E p \in Projects, name \in SessionCommands, transferred_arg \in 1..MaxSize,
          load_ok \in BOOLEAN : command_load(p, name, transferred_arg, load_ok)
    \/ \E p \in Projects, save_ok \in BOOLEAN : command_save(p, save_ok)
    \/ \E p \in Projects : session_ages(p)


(***************************************************************************)
(* parallel_sync.rs: the closure parallel_sftp_sync hands to for_each,     *)
(* called with one file, and upload_single_sftp_file inside it.  The       *)
(* closure of parallel_ftp_sync with upload_single_ftp_file emits the same *)
(* events at the same places.                                              *)
(***************************************************************************)
WorkerInit ==
    /\ wk_pc = "check"
    /\ wk_cancelled \in BOOLEAN
    /\ wk_failed \in 0..(STOP_AFTER_FAILURES + 1)
    /\ wk_big \in BOOLEAN
    /\ wk_chunks \in 0..MaxUploadChunks
    /\ wk_sent = 0
    /\ wk_events = <<>>

WorkerIdle ==
    /\ wk_pc = "done"
    /\ wk_cancelled = FALSE
    /\ wk_failed = 0
    /\ wk_big = FALSE
    /\ wk_chunks = 0
    /\ wk_sent = 0
    /\ wk_events = <<>>

\* if is_cancelled(project_id) || tracker.should_stop() { return; }
\* tracker.emit_file_start(&diff.path, file_size)
closure_check ==
    /\ wk_pc = "check"
    /\ IF wk_cancelled \/ wk_failed >= STOP_AFTER_FAILURES
         THEN wk_pc' = "done" /\ UNCHANGED wk_events
         ELSE wk_pc' = "open" /\ wk_events' = Append(wk_events, "file_start")
    /\ UNCHANGED <<wk_cancelled, wk_failed, wk_big, wk_chunks, wk_sent, not_wk>>

\* variant: the error arm falls through to the completion
result_events_error_then_complete(upload_ok) ==
    IF upload_ok THEN <<"file_complete">> ELSE <<"file_error", "file_complete">>

\* match result { Ok(_) => emit_file_complete, Err(e) => emit_file_error }
result_events(upload_ok) ==
    IF upload_ok THEN <<"file_complete">> ELSE <<"file_error">>

\* upload_single_sftp_file up to sftp.create: connection, handshake, login,
\* directories, reading the local file, creating the remote one; each `?`
\* returns the error to the closure
upload_open(open_ok) ==
    /\ wk_pc = "open"
    /\ IF open_ok
         THEN wk_pc' = "write" /\ UNCHANGED wk_events
         ELSE wk_pc' = "done" /\ wk_events' = wk_events \o result_events(FALSE)
    /\ UNCHANGED <<wk_cancelled, wk_failed, wk_big, wk_chunks, wk_sent, not_wk>>

\* one round of `for chunk in contents.chunks(chunk_size)`: write_all(chunk)?,
\* then emit_file_progress when file_size > chunk_size
upload_chunk(write_ok) ==
    /\ wk_pc = "write"
    /\ wk_sent < wk_chunks
    /\ IF write_ok
         THEN /\ wk_sent' = wk_sent + 1
              /\ wk_events' = IF wk_big THEN Append(wk_events, "file_progress")
                              ELSE wk_events
              /\ UNCHANGED wk_pc
         ELSE /\ wk_pc' = "done"
              /\ wk_events' = wk_events \o result_events(FALSE)
              /\ UNCHANGED wk_sent
    /\ UNCHANGED <<wk_cancelled, wk_failed, wk_big, wk_chunks, not_wk>>

\* the loop is over: upload_single_sftp_file returns Ok(())
upload_return ==
    /\ wk_pc = "write"
    /\ wk_sent = wk_chunks
    /\ wk_pc' = "done"
    /\ wk_events' = wk_events \o result_events(TRUE)
    /\ UNCHANGED <<wk_cancelled, wk_failed, wk_big, wk_chunks, wk_sent, not_wk>>

WorkerNext ==
    \/ closure_check
    \/ \E open_ok \in BOOLEAN : upload_open(open_ok)
    \/ \E write_ok \in BOOLEAN : upload_chunk(write_ok)
    \/ upload_return

(***************************************************************************)
(* main.rs: sync_sftp_with_progress, the sequential transfer.              *)
(* sync_ftp_with_progress has the same loop and the same results.          *)
(***************************************************************************)
SeqRunning == [kind |-> "running", entries |-> <<>>]

SequentialInit ==
    /\ seq_pc = "connect"
    /\ seq_total \in 0..(MaxSyncFiles + 1)
    /\ seq_next = 1
    /\ seq_cancel = FALSE
    /\ seq_completed = 0
    /\ seq_errors = <<>>
    /\ seq_result = SeqRunning

SequentialIdle ==
    /\ seq_pc = "done"
    /\ seq_total = 0
    /\ seq_next = 1
    /\ seq_cancel = FALSE
    /\ seq_completed = 0
    /\ seq_errors = <<>>
    /\ seq_result = SeqRunning

\* sftp_cancel_sync for this project while the transfer runs
sequential_user_cancel ==
    /\ seq_pc # "done"
    /\ ~seq_cancel
    /\ seq_cancel' = TRUE
    /\ UNCHANGED <<seq_pc, seq_total, seq_next, seq_completed, seq_errors, seq_result,
                   not_seq>>

\* resolve_addr(..)? up to sess.sftp()?: the connection, once for all files
sequential_connect(connect_ok) ==
    /\ seq_pc = "connect"
    /\ IF connect_ok
         THEN seq_pc' = "for" /\ UNCHANGED seq_result
         ELSE /\ seq_pc' = "done"
              /\ seq_result' = [kind |-> "connection_failed", entries |-> <<>>]
    /\ UNCHANGED <<seq_total, seq_next, seq_cancel, seq_completed, seq_errors, not_seq>>

\* format!("Arrêt après 3 erreurs. Dernière erreur: {}", errors.last())
stop_message(errs) ==
    [kind |-> "stopped_after_failures", entries |-> <<errs[Len(errs)]>>]

\* format!("{} fichier(s) en erreur: {}", errors.len(), errors.join(", "))
summary_message(errs) == [kind |-> "files_failed", entries |-> errs]

\* one round of `for diff in &files_to_upload`: the cancel test, file_start,
\* the upload, then file_complete, or file_error and the stop after the
\* third error
sequential_file(upload_ok) ==
    /\ seq_pc = "for"
    /\ seq_next <= seq_total
    /\ IF seq_cancel
         THEN /\ seq_pc' = "done"
              /\ seq_result' = [kind |-> "cancelled", entries |-> <<>>]
              /\ UNCHANGED <<seq_next, seq_completed, seq_errors>>
         ELSE IF upload_ok
                THEN /\ seq_completed' = seq_completed + 1
                     /\ seq_next' = seq_next + 1
                     /\ UNCHANGED <<seq_pc, seq_errors, seq_result>>
                ELSE LET errs == Append(seq_errors, seq_next)
                     IN  /\ seq_errors' = errs
                         /\ seq_next' = seq_next + 1
                         /\ UNCHANGED seq_completed
                         /\ IF Len(errs) >= STOP_AFTER_FAILURES
                              THEN seq_pc' = "done" /\ seq_result' = stop_message(errs)
                              ELSE UNCHANGED <<seq_pc, seq_result>>
    /\ UNCHANGED <<seq_total, seq_cancel, not_seq>>

\* after the loop: the summary of the failures, or Ok(())
sequential_return ==
    /\ seq_pc = "for"
    /\ seq_next > seq_total
    /\ seq_pc' = "done"
    /\ seq_result' = IF seq_errors # <<>> THEN summary_message(seq_errors)
                     ELSE [kind |-> "ok", entries |-> <<>>]
    /\ UNCHANGED <<seq_total, seq_next, seq_cancel, seq_completed, seq_errors, not_seq>>

SequentialNext ==
    \/ sequential_user_cancel
    \/ \E connect_ok \in BOOLEAN : sequential_connect(connect_ok)
    \/ \E upload_ok \in BOOLEAN : sequential_file(upload_ok)
    \/ sequential_return

(***************************************************************************)
(* Specifications.                                                         *)
(***************************************************************************)
\* the added parts at rest
\* the parts after compare_snapshots at rest
\* the parts added last at rest
(***************************************************************************)
(* main.rs: the snapshot step of the command create_version_snapshot and   *)
(* of sftp_sync.  create_snapshot copies the backups into backup_dir, then *)
(* the history document is loaded, the snapshot is added (add_snapshot, as *)
(* modelled above on snapshots and disk) and the document is saved.        *)
(* create_version_snapshot returns the first failure with `?`; sftp_sync   *)
(* drops every failure and goes on with the upload.                        *)
(***************************************************************************)
StepCommands == {"create_version_snapshot", "sftp_sync"}

StepInit ==
    /\ persisted_snapshots = snapshots
    /\ step_command \in StepCommands
    /\ step_pc = "create"
    /\ step_backed = {}
    /\ step_result = "none"

StepIdle ==
    /\ persisted_snapshots = <<>>
    /\ step_command = "sftp_sync"
    /\ step_pc = "done"
    /\ step_backed = {}
    /\ step_result = "none"

\* what the caller does with a failure of the step: `?` in
\* create_version_snapshot, a warning or nothing at all in sftp_sync
step_failure == IF step_command = "create_version_snapshot" THEN "Err" ELSE "continues"

\* what the caller does once save_history has returned Ok
step_success == IF step_command = "create_version_snapshot" THEN "Ok" ELSE "continues"

\* create_snapshot(.., Some(&backup_dir_str), ..): the files in backed are
\* copied to backup_dir/id/; when a later file cannot be read the call returns
\* Err and the copies made so far stay
step_create_snapshot(backed, create_ok) ==
    /\ step_pc = "create"
    /\ disk' = disk \cup BackupsOf(Snapshot(next_snapshot + 1, backed))
    /\ step_backed' = backed
    /\ step_pc' = IF create_ok THEN "load" ELSE "done"
    /\ step_result' = IF create_ok THEN step_result ELSE step_failure
    /\ UNCHANGED <<snapshots, max_snapshots, next_snapshot, add_calls, hist_pc,
                   removed, pending, old_snapshots, old_disk, persisted_snapshots,
                   step_command, not_stp>>

\* load_history(&app_data_dir, &project_id)
step_load_history(load_ok) ==
    /\ step_pc = "load"
    /\ snapshots' = IF load_ok THEN persisted_snapshots ELSE snapshots
    /\ step_pc' = IF load_ok THEN "add" ELSE "done"
    /\ step_result' = IF load_ok THEN step_result ELSE step_failure
    /\ UNCHANGED <<max_snapshots, disk, next_snapshot, add_calls, hist_pc, removed,
                   pending, old_snapshots, old_disk, persisted_snapshots,
                   step_command, step_backed, not_stp>>

\* history.add_snapshot(snapshot), with the snapshot create_snapshot returned
step_add_snapshot ==
    /\ step_pc = "add"
    /\ \/ add_calls = 0 /\ add_snapshot_push(step_backed)
       \/ add_snapshot_remove_first
       \/ \E path \in Paths, remove_ok \in BOOLEAN :
              add_snapshot_remove_file(path, remove_ok)
       \/ add_snapshot_next_round
       \/ add_snapshot_return

\* save_history(&app_data_dir, &history)
step_save_history(save_ok) ==
    /\ step_pc = "add"
    /\ add_calls = 1
    /\ hist_pc = "idle"
    /\ persisted_snapshots' = IF save_ok THEN snapshots ELSE persisted_snapshots
    /\ step_pc' = "done"
    /\ step_result' = IF save_ok THEN step_success ELSE step_failure
    /\ UNCHANGED <<ver_vars, step_command, step_backed, not_stp>>

StepNext ==
    \/ \E backed \in SUBSET Paths, create_ok \in BOOLEAN :
           step_create_snapshot(backed, create_ok)
    \/ \E load_ok \in BOOLEAN : step_load_history(load_ok)
    \/ step_add_snapshot
    \/ \E save_ok \in BOOLEAN : step_save_history(save_ok)


LastIdle == WorkerIdle /\ SequentialIdle /\ StepIdle

MoreIdle == AnalyzeIdle /\ UpdateIdle /\ SyncIdle /\ CommandsIdle /\ LastIdle

LaterIdle == RestoreIdle /\ CreateIdle /\ DeltaIdle /\ MoreIdle

ExtIdle == StoreIdle /\ VersionIdle /\ CompareIdle /\ LaterIdle

Init == ParInit /\ ResumeIdle /\ SessionIdle /\ ExtIdle
Next == ParNext
Spec == Init /\ [][Next]_vars

InitResume == ParIdle /\ ResumeInit /\ SessionIdle /\ ExtIdle
NextResume == ResumeNext
SpecResume == InitResume /\ [][NextResume]_vars

InitSession == ParIdle /\ ResumeIdle /\ SessionInit /\ ExtIdle
NextSession == SessionNext
SpecSession == InitSession /\ [][NextSession]_vars

InitStore == ParIdle /\ ResumeIdle /\ SessionIdle /\ StoreInit /\ VersionIdle /\ CompareIdle
                /\ LaterIdle
NextStore == StoreNext
SpecStore == InitStore /\ [][NextStore]_vars

InitVersion == ParIdle /\ ResumeIdle /\ SessionIdle /\ StoreIdle /\ VersionInit /\ CompareIdle
                /\ LaterIdle
NextVersion == VersionNext
SpecVersion == InitVersion /\ [][NextVersion]_vars

\* the parts before compare_snapshots at rest
BaseIdle == ParIdle /\ ResumeIdle /\ SessionIdle /\ StoreIdle /\ VersionIdle

InitCompare == BaseIdle /\ CompareInit /\ LaterIdle
NextCompare == CompareNext
SpecCompare == InitCompare /\ [][NextCompare]_vars

InitRestore == BaseIdle /\ CompareIdle /\ RestoreInit /\ CreateIdle /\ DeltaIdle /\ MoreIdle
NextRestore == RestoreNext
SpecRestore == InitRestore /\ [][NextRestore]_vars

InitCreate == BaseIdle /\ CompareIdle /\ RestoreIdle /\ CreateInit /\ DeltaIdle /\ MoreIdle
NextCreate == CreateNext
SpecCreate == InitCreate /\ [][NextCreate]_vars

InitDelta == BaseIdle /\ CompareIdle /\ RestoreIdle /\ CreateIdle /\ DeltaInit /\ MoreIdle
NextDelta == DeltaNext
SpecDelta == InitDelta /\ [][NextDelta]_vars

\* the parts before analyze_delta_sync at rest
OldIdle == BaseIdle /\ CompareIdle /\ RestoreIdle /\ CreateIdle /\ DeltaIdle

InitAnalyze == OldIdle /\ AnalyzeInit /\ UpdateIdle /\ SyncIdle /\ CommandsIdle /\ LastIdle
NextAnalyze == AnalyzeNext
SpecAnalyze == InitAnalyze /\ [][NextAnalyze]_vars

InitUpdate == OldIdle /\ AnalyzeIdle /\ UpdateInit /\ SyncIdle /\ CommandsIdle /\ LastIdle
NextUpdate == UpdateNext
SpecUpdate == InitUpdate /\ [][NextUpdate]_vars

InitSync == OldIdle /\ AnalyzeIdle /\ UpdateIdle /\ SyncInit /\ CommandsIdle /\ LastIdle
NextSync == SyncNext
SpecSync == InitSync /\ [][NextSync]_vars

InitCommands == OldIdle /\ AnalyzeIdle /\ UpdateIdle /\ SyncIdle /\ CommandsInit /\ LastIdle
NextCommands == CommandsNext
SpecCommands == InitCommands /\ [][NextCommands]_vars

\* the parts before the closure of the parallel wave at rest
MidIdle == OldIdle /\ AnalyzeIdle /\ UpdateIdle /\ SyncIdle /\ CommandsIdle

InitWorker == MidIdle /\ WorkerInit /\ SequentialIdle /\ StepIdle
NextWorker == WorkerNext
SpecWorker == InitWorker /\ [][NextWorker]_vars

InitSequential == MidIdle /\ WorkerIdle /\ SequentialInit /\ StepIdle
NextSequential == SequentialNext
SpecSequential == InitSequential /\ [][NextSequential]_vars

InitStep == ParIdle /\ ResumeIdle /\ SessionIdle /\ StoreIdle /\ VersionInit /\ CompareIdle
            /\ RestoreIdle /\ CreateIdle /\ DeltaIdle /\ AnalyzeIdle /\ UpdateIdle
            /\ SyncIdle /\ CommandsIdle /\ WorkerIdle /\ SequentialIdle /\ StepInit
NextStep == StepNext
SpecStep == InitStep /\ [][NextStep]_vars

(***************************************************************************)
(* Properties of the parallel wave (specification Spec).                   *)
(***************************************************************************)

\* C1: at any moment the number of file uploads in progress is at most
\* min(max_connections, number of files to upload, 8), for every requested
\* max_connections value.
C1_UploadsWithinLimit ==
    UploadsInProgress
        <= Min(Min(max_connections, total_files), MAX_PARALLEL_CONNECTIONS)

\* an upload that has started is never taken back: it goes on to its own
\* completion or error
InFlightRunsOn ==
    \A f \in Files :
        file_state[f] = "uploading" => file_state'[f] \in {"uploading", "finishing"}

\* a file a worker returned from without starting never gets a file_start
SkippedStaysSkipped ==
    \A f \in Files :
        file_state[f] = "skipped" => (file_state'[f] = "skipped" /\ f \notin started')

C4_ErrorSummaryListsEveryFailure ==
    (wave_result.kind # "running" /\ failed_files > 0) =>
        /\ wave_result.kind = "Err"
        /\ Len(wave_result.entries) = failed_files
        /\ {wave_result.entries[i] : i \in 1..Len(wave_result.entries)}
               = started \ uploaded
        /\ \A f \in Files : file_state[f] = "complete" => f \in uploaded

\* C4 witness: a returned wave with two failed files and an uploaded one,
\* with a cancel request pending as well.
C4_Witness ==
    /\ wave_result.kind = "Err"
    /\ Len(wave_result.entries) >= 2
    /\ uploaded # {}
    /\ cancel_flags[project_id]

(***************************************************************************)
(* Properties of the resume uploads (specification SpecResume).            *)
(***************************************************************************)
ResumeOk == resume_pc = "done" /\ resume_result.kind = "Ok"

\* C5: resume_sftp_upload with offset > 0 and a remote file that is missing
\* or whose size differs from offset restarts from byte zero: on success the
\* remote file holds the whole local file and the returned count is the
\* local file size.  Stated for a resumable file (offset < local size).
C5_SftpMismatchRestartsFromZero ==
    (/\ ResumeOk
     /\ protocol = "sftp"
     /\ offset > 0
     /\ offset < Len(local_file)
     /\ (~remote_before.exists \/ Len(remote_before.bytes) # offset))
        => /\ remote_file.bytes = local_file
           /\ resume_result.value = Len(local_file)

\* C6: with 0 < offset < local size and a remote file of exactly offset
\* bytes, only the local bytes from offset on are sent, they are appended after
\* the existing remote bytes, the returned count is the local size, and a
\* remote file that held the first offset bytes of the local file now equals it.
C6_MatchAppendsRemainder ==
    (/\ ResumeOk
     /\ offset > 0
     /\ offset < Len(local_file)
     /\ remote_before.exists
     /\ Len(remote_before.bytes) = offset)
        => /\ sent = Drop(local_file, offset)
           /\ remote_file.bytes = remote_before.bytes \o sent
           /\ resume_result.value = Len(local_file)
           /\ (remote_before.bytes = Take(local_file, offset)
                  => remote_file.bytes = local_file)

\* C7: resume_ftp_upload with offset > 0 appends only when the remote size
\* equals offset; when the remote size differs it restarts from byte zero,
\* so the whole local file is sent and the remote file equals it.  Stated
\* for a resumable file (offset < local size).
C7_FtpMismatchRestartsFromZero ==
    (/\ ResumeOk
     /\ protocol = "ftp"
     /\ offset > 0
     /\ offset < Len(local_file)
     /\ get_remote_ftp_size(remote_before) # offset)
        => /\ sent = local_file
           /\ remote_file.bytes = local_file

(***************************************************************************)
(* Properties of the session ledger (specification SpecSession).           *)
(***************************************************************************)

\* C8: every file entry has transferred_bytes <= total_size.
C8_TransferredWithinTotal ==
    \A p \in Paths :
        files[p].present => files[p].transferred_bytes <= files[p].total_size

\* C9: every file entry whose status is Completed has
\* transferred_bytes = total_size.
C9_CompletedMeansAllBytes ==
    \A p \in Paths :
        (files[p].present /\ files[p].status = "Completed")
            => files[p].transferred_bytes = files[p].total_size

\* C9 witness: a Completed entry of non-zero size next to an entry whose
\* progress was updated.
C9_Witness ==
    \E p, q \in Paths :
        /\ files[p].present /\ files[p].status = "Completed"
        /\ files[p].total_size > 0
        /\ files[q].present /\ files[q].status = "InProgress"
        /\ files[q].transferred_bytes > 0

\* C10: Completed is terminal: an update_progress, mark_failed or
\* mark_completed call on a Completed entry changes neither its status nor
\* its transferred_bytes.
C10_CompletedIsTerminal ==
    [][ \A p \in Paths :
          (/\ files[p].present
           /\ files[p].status = "Completed"
           /\ \/ \E t \in 0..(MaxSize + 1) : update_progress(p, t)
              \/ mark_failed(p)
              \/ mark_completed(p))
             => /\ files'[p].status = "Completed"
                /\ files'[p].transferred_bytes = files[p].transferred_bytes ]_vars

\* C11: get_resumable_files returns exactly the entries that are neither
\* Completed nor Pending and have 0 < transferred_bytes < total_size; no
\* Completed or Pending entry is ever returned.
C11_ResumableFilesExact ==
    /\ \A p \in Paths :
          p \in get_resumable_files <=>
             /\ files[p].present
             /\ files[p].status \notin {"Completed", "Pending"}
             /\ 0 < files[p].transferred_bytes
             /\ files[p].total_size - files[p].transferred_bytes >= 1
    /\ \A p \in get_resumable_files :
          files[p].status \in {"InProgress", "Paused", "Failed"}

\* C11 witness: a Failed entry with a partial transfer is returned while a
\* Completed entry is not.
C11_Witness ==
    \E p, q \in Paths :
        /\ files[p].present /\ files[p].status = "Failed"
        /\ p \in get_resumable_files
        /\ files[q].present /\ files[q].status = "Completed"
        /\ q \notin get_resumable_files

(***************************************************************************)
(* Properties of the session store (specification SpecStore).              *)
(***************************************************************************)
OpenSessions(p) ==
    {id \in SessionIds :
        sessions[id].present /\ sessions[id].project_id = p /\ ~sessions[id].completed}

\* C12: each project has at most one session with completed = false.
C12_OneOpenSessionPerProject ==
    \A p \in Projects : Cardinality(OpenSessions(p)) <= 1

\* C13: a step never removes a session that is open when cleanup_old_sessions
\* looks at it, whatever its age and whatever max_age_hours: an open session
\* disappears only in the command that has just completed it, and otherwise
\* stays in the store as it was.
C13_CleanupKeepsOpenSessions ==
    [][ \A id \in SessionIds :
          (sessions[id].present /\ ~sessions[id].completed)
             => \/ sessions'[id].present /\ sessions'[id].started_at = sessions[id].started_at
                \/ complete_transfer_session(id) ]_vars

\* C13 witness: an open session older than every max age is still stored
\* while a completed session has been removed.
C13_Witness ==
    /\ \E id \in SessionIds :
          /\ sessions[id].present /\ ~sessions[id].completed
          /\ now - sessions[id].started_at > SESSION_MAX_AGE_HOURS
    /\ \E id \in 1..next_session : ~sessions[id].present

\* C14: complete_session followed at once by the cleanup, as
\* complete_transfer_session does with 24 h, leaves the just-completed
\* session in the store.
C14_JustCompletedSessionStays ==
    [][ \A id \in SessionIds :
          (sessions[id].present /\ ~sessions[id].completed
             /\ complete_transfer_session(id))
             => (sessions'[id].present /\ sessions'[id].completed) ]_vars

(***************************************************************************)
(* Properties of add_snapshot (specification SpecVersion).                 *)
(***************************************************************************)
Returned == hist_pc = "idle" /\ add_calls > 0

\* C15: after every add_snapshot call, for any starting history and any
\* max_snapshots, the history holds at most max_snapshots snapshots.
C15_HistoryWithinCap ==
    Returned => Len(snapshots) <= max_snapshots

\* C15 witness: one call on a history longer than its cap has returned, and
\* it removed more than one snapshot
C15_Witness ==
    /\ Returned
    /\ add_calls = 1
    /\ Len(old_snapshots) > max_snapshots
    /\ Len(snapshots) = max_snapshots
    /\ max_snapshots >= 1

\* C16: when add_snapshot is called on a history that holds max_snapshots
\* snapshots (at least one), the first snapshot is the one evicted, the others
\* keep their order with the new one last, no backup file of the evicted
\* snapshot is on disk after the call, and the backup files of the retained
\* snapshots are as they were.
C16_EvictsOldestAndItsBackups ==
    (Returned /\ Len(old_snapshots) = max_snapshots /\ max_snapshots >= 1)
       => /\ Len(snapshots) = max_snapshots
          /\ \A i \in 1..(max_snapshots - 1) : snapshots[i] = old_snapshots[i + 1]
          /\ snapshots[max_snapshots].id = next_snapshot
          /\ BackupsOf(old_snapshots[1]) \cap disk = {}
          /\ \A i \in 1..max_snapshots :
                BackupsOf(snapshots[i]) \cap disk = BackupsOf(snapshots[i]) \cap old_disk

(***************************************************************************)
(* Properties of compare_snapshots (specification SpecCompare).            *)
(***************************************************************************)
InOld(path) == old_files[path] # NoHash
InNew(path) == new_files[path] # NoHash

NoDuplicates(seq) == Cardinality(Range(seq)) = Len(seq)

\* C17: the diff compare_snapshots returns partitions the paths of the two
\* snapshots: added are the paths only in new, deleted those only in old,
\* modified those in both with different hashes, unchanged those in both with
\* equal hashes; no path is in two lists or twice in one, and every path of old
\* or new is in one of them.
C17_DiffPartitionsPaths ==
    cmp_pc = "done" =>
       /\ \A path \in CmpPaths :
             /\ path \in Range(added) <=> (InNew(path) /\ ~InOld(path))
             /\ path \in Range(deleted) <=> (InOld(path) /\ ~InNew(path))
             /\ path \in Range(modified) <=>
                   (InOld(path) /\ InNew(path) /\ old_files[path] # new_files[path])
             /\ path \in Range(unchanged) <=>
                   (InOld(path) /\ InNew(path) /\ old_files[path] = new_files[path])
       /\ Range(added) \cap Range(deleted) = {}
       /\ Range(added) \cap Range(modified) = {}
       /\ Range(added) \cap Range(unchanged) = {}
       /\ Range(deleted) \cap Range(modified) = {}
       /\ Range(deleted) \cap Range(unchanged) = {}
       /\ Range(modified) \cap Range(unchanged) = {}
       /\ NoDuplicates(added) /\ NoDuplicates(deleted)
       /\ NoDuplicates(modified) /\ NoDuplicates(unchanged)
       /\ Range(added) \cup Range(deleted) \cup Range(modified) \cup Range(unchanged)
             = {path \in CmpPaths : InOld(path) \/ InNew(path)}

\* C17 witness: {a:h1, b:h2} against {a:h1, b:h1, c:h1} has been compared
C17_Witness ==
    /\ cmp_pc = "done"
    /\ old_files = [path \in CmpPaths |->
                      IF path = "a" THEN 1 ELSE IF path = "b" THEN 2 ELSE NoHash]
    /\ new_files = [path \in CmpPaths |-> 1]
    /\ added = <<"c">>
    /\ modified = <<"b">>
    /\ unchanged = <<"a">>
    /\ deleted = <<>>

(***************************************************************************)
(* Properties of restore_snapshot (specification SpecRestore).             *)
(***************************************************************************)
\* C18: the list restore_snapshot returns is the list of the files it copied
\* into target_path: each once, and a path is in it iff it is a file of the
\* snapshot, it is in the subset when one is given, and its backup_path names
\* a file that exists; a file without such a backup is skipped and is never
\* what makes the call fail.
C18_RestoredIsWhatWasCopied ==
    /\ rst_pc = "ok" =>
          /\ Range(restored) = target_files
          /\ NoDuplicates(restored)
          /\ \A path \in CmpPaths :
                path \in Range(restored) <=>
                   /\ snapshot_files[path] = "present"
                   /\ (files_to_restore.given => path \in files_to_restore.files)
    /\ rst_pc = "err" =>
          \/ failed_at = "target_path"
          \/ /\ failed_at \in CmpPaths
             /\ snapshot_files[failed_at] = "present"
    /\ \A path \in target_files : snapshot_files[path] = "present"

\* C18 witness: a call with a subset has returned one file and has skipped a
\* file without backup_path and a file whose backup is not on disk
C18_Witness ==
    /\ rst_pc = "ok"
    /\ snapshot_files = [path \in CmpPaths |->
          IF path = "a" THEN "present" ELSE IF path = "b" THEN "no_backup" ELSE "missing"]
    /\ files_to_restore = [given |-> TRUE, files |-> CmpPaths]
    /\ restored = <<"a">>

(***************************************************************************)
(* Properties of create_snapshot (specification SpecCreate).               *)
(***************************************************************************)
RECURSIVE SumSizes(_)
SumSizes(seq) == IF seq = <<>> THEN 0 ELSE Head(seq).size + SumSizes(Tail(seq))

\* C19: with a backup_dir, a file whose backup copy fails is in the snapshot
\* returned, with its hash and size and without backup_path, it is counted in
\* files_count and total_size, and a failed copy never makes create_snapshot
\* fail.
C19_FailedBackupStillRecorded ==
    /\ (crt_pc = "ok" /\ backup_dir) =>
          /\ \A path \in copy_failed :
                \E i \in 1..Len(file_versions) :
                   file_versions[i] = [path |-> path, hash |-> local_tree[path].hash,
                                       size |-> local_tree[path].size,
                                       backup_path |-> FALSE]
          /\ files_count = Len(file_versions)
          /\ total_size = SumSizes(file_versions)
    /\ crt_pc = "err" => crt_error \in {"local_path", "metadata_err", "hash_err"}

\* C19 witness: a snapshot was returned in which the copy of one file failed
\* and the copy of another worked
C19_Witness ==
    /\ crt_pc = "ok"
    /\ backup_dir
    /\ copy_failed = {"a"}
    /\ Len(file_versions) = 2
    /\ \E i \in 1..2 : file_versions[i].path = "b" /\ file_versions[i].backup_path
    /\ total_size = 2 * MaxSize

(***************************************************************************)
(* Properties of compute_file_delta (specification SpecDelta).             *)
(***************************************************************************)
\* the delta of a file against the signature generated from the same file
SameFileCompared ==
    /\ delta_pc = "done"
    /\ delta.status # "Err"
    /\ cached_signature = generate_file_signature(live_file)

IsUnchangedDelta ==
    /\ delta.status = "Unchanged"
    /\ delta.transfer_size = 0
    /\ delta.savings_percent = 100

\* C20 as stated: for every file of any size, the delta against the signature
\* of the same unchanged file is Unchanged, transfer_size 0, savings 100.
C20_SameFileIsUnchanged ==
    SameFileCompared => IsUnchangedDelta

\* C20 amended: for every file of at least 256 KiB, the delta against the
\* signature of the same unchanged file is Unchanged, transfer_size 0,
\* savings 100; a smaller file yields SmallFile, transfer_size = total_size,
\* savings 0.
C20_SameLargeFileIsUnchanged ==
    SameFileCompared =>
       IF delta.total_size >= 256 * 1024
         THEN IsUnchangedDelta
         ELSE /\ delta.status = "SmallFile"
              /\ delta.transfer_size = delta.total_size
              /\ delta.savings_percent = 0

\* C20 witness: a file of exactly 256 KiB was compared with its own signature
C20_Witness ==
    /\ SameFileCompared
    /\ delta.total_size = 256 * 1024
    /\ delta.status = "Unchanged"

Delivered == delta_pc = "done" /\ delta.status # "Err"

\* C21 as stated: every file below 256 KiB is classified SmallFile with
\* transfer_size = total_size, whether or not a cached signature exists.
C21_SmallFileWhateverTheCache ==
    (Delivered /\ delta.total_size < 256 * 1024)
       => (delta.status = "SmallFile" /\ delta.transfer_size = delta.total_size)

\* C21 amended: every file below 256 KiB for which a cached signature exists
\* is classified SmallFile, whatever the signature contains, and without a
\* cached signature it is classified New; transfer_size = total_size in both
\* cases.
C21_SmallFileWhenCached ==
    (Delivered /\ delta.total_size < 256 * 1024)
       => /\ delta.status = (IF cached_signature.some THEN "SmallFile" ELSE "New")
          /\ delta.transfer_size = delta.total_size
          /\ delta.total_size = ByteLen(live_file)

\* C21 witness: a file below 256 KiB was compared with its own signature
C21_Witness ==
    /\ Delivered
    /\ live_file # <<>>
    /\ delta.total_size < 256 * 1024
    /\ cached_signature = generate_file_signature(live_file)
    /\ delta.status = "SmallFile"

\* the positions of the live file whose chunk the cached signature lacks or
\* holds with another hash
DifferingPositions ==
    {i \in 1..Len(live_file) :
        \/ i > Len(cached_signature.chunk_hashes)
        \/ cached_signature.chunk_hashes[i].hash # <<live_file[i]>>}

RECURSIVE SumChunkSizes(_)
SumChunkSizes(positions) ==
    IF positions = {} THEN 0
    ELSE LET i == CHOOSE j \in positions : TRUE
         IN  live_file[i].size + SumChunkSizes(positions \ {i})

DeltasOf(path) == {i \in 1..Len(deltas) : deltas[i].path = path}

DeletedReported(path) ==
    \E i \in DeltasOf(path) : deltas[i].delta.status = "Deleted"

\* the paths of the cache that are no longer on disk have one Deleted delta,
\* no path has two deltas, and no path on disk is reported Deleted
DeletedAndDisjoint ==
    /\ \A p \in AnPaths :
          (signatures[p].some /\ ~disk_tree[p].exists)
             => (Cardinality(DeltasOf(p)) = 1 /\ DeletedReported(p))
    /\ \A p \in AnPaths : Cardinality(DeltasOf(p)) <= 1
    /\ \A p \in AnPaths : disk_tree[p].exists => ~DeletedReported(p)

\* C23 as stated: the deltas returned hold exactly one delta for every
\* non-hidden file of the tree, one Deleted delta for every path of the cache
\* that is not on disk, and nothing else.
C23_OneDeltaPerFile ==
    an_pc = "done" =>
       /\ \A p \in AnPaths :
             (disk_tree[p].exists /\ p # ".env") => Cardinality(DeltasOf(p)) = 1
       /\ DeletedAndDisjoint

\* C23 amended: the deltas returned hold exactly one delta for every
\* non-hidden file of the tree whose delta could be computed, none for a file
\* compute_file_delta failed on, one Deleted delta for every path of the cache
\* that is not on disk, and nothing else.
C23_OneDeltaPerReadableFile ==
    an_pc = "done" =>
       /\ \A p \in AnPaths :
             (disk_tree[p].exists /\ p # ".env") =>
                IF p \in unreadable
                  THEN DeltasOf(p) = {}
                  ELSE /\ Cardinality(DeltasOf(p)) = 1
                       /\ \A i \in DeltasOf(p) : deltas[i].delta.status # "Deleted"
       /\ \A p \in AnPaths :
             (disk_tree[p].exists /\ p = ".env") => DeltasOf(p) = {}
       /\ \A p \in AnPaths :
             (~disk_tree[p].exists /\ ~signatures[p].some) => DeltasOf(p) = {}
       /\ DeletedAndDisjoint

\* C23 witness: a.txt is new, b.txt was cached and is gone, .env is on disk:
\* the deltas are New for a.txt and Deleted for b.txt
C23_Witness ==
    /\ an_pc = "done"
    /\ disk_tree[".env"].exists
    /\ unreadable = {}
    /\ deltas = << [path |-> "a.txt", delta |-> FileDelta("New", 0, 0, <<>>, 0)],
                   [path |-> "b.txt", delta |-> FileDelta("Deleted", 0, 0, <<>>, 100)] >>

(***************************************************************************)
(* Properties of update_cache_after_sync (specification SpecUpdate).       *)
(***************************************************************************)
\* C24: when update_cache_after_sync has saved the cache, a listed path that
\* exists has the signature of the file as it is now, a listed path that does
\* not exist has no entry, and the entry of every path not listed is as it
\* was; no other step changes the persisted cache.
C24_OnlyListedEntriesChange ==
    [][ IF upd_pc = "for" /\ upd_pc' = "ok"
          THEN \A p \in Paths :
                  IF p \in synced_files
                    THEN persisted_cache'[p] =
                            (IF upd_tree[p].exists
                               THEN generate_file_signature(upd_tree[p].contents)
                               ELSE NoSignature)
                    ELSE persisted_cache'[p] = persisted_cache[p]
          ELSE persisted_cache' = persisted_cache ]_vars

(***************************************************************************)
(* Properties of sftp_sync (specification SpecSync).                       *)
(***************************************************************************)
LastEvent == IF events = <<>> THEN "" ELSE events[Len(events)]

\* C25: a sync that ends because files failed, with no cancel request, ends
\* with an "error" event, and a sync in which a cancellation test stopped
\* work ends with a "cancelled" event.
C25_CancelAndErrorDistinct ==
    /\ (sync_pc = "done" /\ sync_result.kind = "files_failed" /\ ~cancel_requested)
          => LastEvent = "error"
    /\ (sync_pc = "done" /\ stopped_by_cancel /\ sync_result.kind # "diff_failed")
          => LastEvent = "cancelled"

UploadStarted == \E i \in 1..Len(events) : events[i] = "file_start"

C26_LoadFailureIsFatal ==
    snapshot_state = "load_failed" =>
       /\ sync_pc = "done"
       /\ sync_result.kind \notin {"", "ok"}
       /\ \A i \in 1..Len(events) : events[i] \notin {"snapshot", "file_start", "complete"}

(***************************************************************************)
(* Properties of the session commands (specification SpecCommands).        *)
(***************************************************************************)
SameSession(a, b) ==
    /\ a.present = b.present
    /\ a.present => /\ a.transferred_bytes = b.transferred_bytes
                    /\ a.status = b.status
                    /\ a.completed = b.completed

\* C27 (session commands): when the commands of project A and of project B
\* have all returned, the persisted store holds each project's session as
\* that project's last saving command left it, or holds no session of the
\* project when that session was completed (cleanup_old_sessions may have
\* removed it).
C27_EachProjectsEffectPersisted ==
    (\A p \in Projects : com_pc[p] = "idle") =>
        \A p \in Projects :
            \/ SameSession(sessions_json[p], com_effect[p])
            \/ com_effect[p].present /\ com_effect[p].completed /\ ~sessions_json[p].present

(***************************************************************************)
(* Order of the eviction in add_snapshot (specification SpecVersion).      *)
(***************************************************************************)
\* C29: whenever a step takes a snapshot out of the history's list, none of
\* that snapshot's backup files is on disk any more: the files are deleted
\* before the snapshot leaves the list, so the list never lacks a snapshot
\* whose backup files still exist.
C29_BackupsDeletedBeforeRemoval ==
    [][ \A i \in 1..Len(snapshots) :
           (\A j \in 1..Len(snapshots') : snapshots'[j].id # snapshots[i].id)
              => \A f \in disk' : f.id # snapshots[i].id ]_vars

(***************************************************************************)
(* Progress values of the parallel tracker (specification Spec).           *)
(***************************************************************************)
\* the progress values on the line from base to base + range, one for each
\* number of completed files
ProgressLine ==
    {base_progress + ((c * progress_range) \div total_files) : c \in 0..total_files}

\* C30: the tracker's global progress, which is the value every event of the
\* wave carries, is base + floor(completed * range / total_files) for some
\* completed in 0..total_files, and so lies between base and base + range.
C30_ProgressOnTheLine ==
    /\ current_progress \in ProgressLine
    /\ base_progress <= current_progress
    /\ current_progress <= base_progress + progress_range

\* C30 witness: with three files, one is complete and another is being
\* uploaded, its events carrying the progress of one file out of three
C30_Witness ==
    /\ total_files = 3
    /\ completed_files = 1
    /\ current_progress = base_progress + (progress_range \div 3)
    /\ \E t \in Threads : worker_pc[t] = "upload"

(***************************************************************************)
(* Events of one file in a parallel wave (specification SpecWorker).       *)
(***************************************************************************)
FileTerminal == {"file_complete", "file_error"}

\* C31: the events of a file a worker started are file_start, then only
\* file_progress events, then, when the closure has returned, exactly one of
\* file_complete and file_error as the last event; a skipped file has no
\* event.
C31_FileEventsInOrder ==
    /\ (wk_cancelled \/ wk_failed >= 3) => wk_events = <<>>
    /\ wk_events # <<>> => wk_events[1] = "file_start"
    /\ \A i \in 2..Len(wk_events) :
          \/ wk_events[i] = "file_progress"
          \/ i = Len(wk_events) /\ wk_pc = "done" /\ wk_events[i] \in FileTerminal
    /\ (wk_pc = "done" /\ wk_events # <<>>) =>
          Len(wk_events) >= 2 /\ wk_events[Len(wk_events)] \in FileTerminal

\* C31 witness: a file with progress events whose upload failed on a later
\* chunk
C31_Witness ==
    /\ wk_pc = "done"
    /\ wk_events = <<"file_start", "file_progress", "file_progress", "file_error">>

(***************************************************************************)
(* Result of the sequential sync (specification SpecSequential).           *)
(***************************************************************************)
\* C32: when a sequential sync has stopped because three files failed, the
\* error it returns lists every file that failed, each with its message.
C32_StopListsEveryFailure ==
    (seq_pc = "done" /\ Len(seq_errors) >= 3) =>
        /\ seq_result.kind \in {"stopped_after_failures", "files_failed"}
        /\ seq_result.entries = seq_errors

(***************************************************************************)
(* Per-file errors of analyze_delta_sync (specification SpecAnalyze).      *)
(***************************************************************************)
\* C33: a file compute_file_delta failed on does not end the pass: the pass
\* goes on and returns Ok, the failed file has no delta in the result, and
\* every other visible file of the tree has its delta there.
C33_FileErrorSkipsOnlyThatFile ==
    /\ unreadable # {} => an_pc \in {"walk", "cached", "done"}
    /\ \A p \in unreadable : DeltasOf(p) = {}
    /\ an_pc = "done" =>
          \A p \in AnPaths \ unreadable :
              (disk_tree[p].exists /\ ~hidden(p)) =>
                  \E i \in DeltasOf(p) :
                      deltas[i].delta.status \in {"New", "SmallFile", "Unchanged", "Modified"}

\* C33 witness: a.txt could not be read, b.txt could: the pass returned the
\* delta of b.txt alone
C33_Witness ==
    /\ an_pc = "done"
    /\ unreadable = {"a.txt"}
    /\ disk_tree["b.txt"].exists
    /\ Len(deltas) = 1
    /\ deltas[1].path = "b.txt"
    /\ deltas[1].delta.status = "Modified"

(***************************************************************************)
(* Order of the progress values of a wave (specification Spec).            *)
(***************************************************************************)
\* C34: the tracker's global progress, which the events carry, never goes
\* down during a wave, and once every file has completed and every worker is
\* through emit_file_complete it is base + range.
C34_ProgressNeverDecreases ==
    [][ /\ current_progress' >= current_progress
        /\ (/\ completed_files' = total_files
            /\ \A t \in Threads : worker_pc'[t] = "idle")
              => current_progress' = base_progress + progress_range ]_vars

TerminalEvents == {"complete", "error", "cancelled"}

\* C36: when sftp_sync has returned, its last event is a terminal event and
\* no earlier event is one; it returned Ok exactly when that event is
\* "complete", so an error is never returned without an "error" or
\* "cancelled" event.
C36_OneTerminalEventLast ==
    sync_pc = "done" =>
        /\ events # <<>>
        /\ events[Len(events)] \in TerminalEvents
        /\ \A i \in 1..(Len(events) - 1) : events[i] \notin TerminalEvents
        /\ (sync_result.kind = "ok") <=> (events[Len(events)] = "complete")

(***************************************************************************)
(* Number of failures of a wave (specification Spec).                      *)
(***************************************************************************)
\* C37: in a wave that runs on N pool threads, each with its own connection,
\* at most N + 2 files are recorded as failed: the failure counter and the
\* error list never hold more.
C37_FailuresWithinThreadsPlusTwo ==
    /\ failed_files <= num_threads + 2
    /\ Len(errors) <= num_threads + 2

\* C37 witness: two threads, two failures recorded, then both uploads in
\* flight failed as well: four files are recorded as failed
C37_Witness ==
    /\ num_threads = 2
    /\ max_connections = 2
    /\ failed_files = 4
    /\ Len(errors) = 4

(***************************************************************************)
(* A second analysis after the cache update (specification SpecUpdate).    *)
(* analyze_delta_sync gives a file of the tree the delta                   *)
(* compute_file_delta computes from its contents and its cache entry.      *)
(***************************************************************************)
EveryFileListed == \A p \in Paths : upd_tree[p].exists => p \in synced_files

FreshSignature(p) == generate_file_signature(upd_tree[p].contents)

C39_ModifiedHasChangedChunks ==
    (Delivered /\ delta.status = "Modified")
       => /\ delta.changed_chunks # <<>>
          /\ delta.transfer_size > 0

(***************************************************************************)
(* Properties of the snapshot step (specification SpecStep).               *)
(***************************************************************************)
\* every backup_path recorded in a snapshot of the persisted history exists
RecordedBackupsExist ==
    \A i \in 1..Len(persisted_snapshots) :
        \A path \in persisted_snapshots[i].backed :
            [id |-> persisted_snapshots[i].id, path |-> path] \in disk

\* every backup on disk belongs to a snapshot of the persisted history
BackupsBelongToHistory ==
    \A file \in disk :
        \E i \in 1..Len(persisted_snapshots) : persisted_snapshots[i].id = file.id

\* C40: once the snapshot step of create_version_snapshot or of sftp_sync has
\* finished, whether or not loading or saving the history failed, every
\* backup_path recorded in the persisted history exists on disk and every
\* backup on disk belongs to a snapshot of the persisted history.
C40_HistoryAndBackupsAgree ==
    step_pc = "done" /\ step_result # "none"
        => RecordedBackupsExist /\ BackupsBelongToHistory

====
